---- MODULE Spec2Model ----
(***************************************************************************)
(* Legal-counsel finder: the entity validator/normalizer, the per-filing   *)
(* extraction task, the concurrent orchestrator with its aggregator and    *)
(* deduplicator, the paginated collector and the adaptive range resolver.  *)
(*                                                                         *)
(* A python str is a sequence of one-character strings, so that every      *)
(* conversion (strip, lower, split, re.sub) is computed character by       *)
(* character as the source computes it.                                    *)
(***************************************************************************)
EXTENDS Integers, Sequences, FiniteSets, TLC

\* ------------------------------------------------------------------------
\* python str primitives
\* ------------------------------------------------------------------------

S(str) == [i \in 1..Len(str) |-> SubSeq(str, i, i)]

UPPER == S("ABCDEFGHIJKLMNOPQRSTUVWXYZ")

LOWER == S("abcdefghijklmnopqrstuvwxyz")

DIGITS == S("0123456789")

\* code-point order of the characters the model uses
ASCII == S("\t\n &(),-.0123456789ABCDEFGHIJKLMNOPQRSTUVWXYZ_abcdefghijklmnopqrstuvwxyz")

SeqRange(s) == {s[i] : i \in 1..Len(s)}

SetMin(X) == CHOOSE x \in X : \A y \in X : x <= y

SetMax(X) == CHOOSE x \in X : \A y \in X : x >= y

isupper(c) == c \in SeqRange(UPPER)

isdigit(c) == c \in SeqRange(DIGITS)

isspace(c) == c \in {" ", "\t", "\n"}

\* \w of the re module
isword(c) == c \in SeqRange(UPPER) \cup SeqRange(LOWER) \cup SeqRange(DIGITS) \cup {"_"}

lower_ch(c) == IF isupper(c) THEN LOWER[CHOOSE i \in 1..Len(UPPER) : UPPER[i] = c] ELSE c

lower(s) == [i \in 1..Len(s) |-> lower_ch(s[i])]

ord(c) == CHOOSE i \in 1..Len(ASCII) : ASCII[i] = c

strip(s) ==
  LET keep == {i \in 1..Len(s) : ~isspace(s[i])}
  IN IF keep = {} THEN <<>> ELSE SubSeq(s, SetMin(keep), SetMax(keep))

\* s[i:].startswith(p), i counted from 1
startswith_at(s, p, i) ==
  /\ i >= 1
  /\ i + Len(p) - 1 <= Len(s)
  /\ \A k \in 1..Len(p) : s[i + k - 1] = p[k]

startswith(s, p) == startswith_at(s, p, 1)

endswith(s, p) == Len(p) <= Len(s) /\ startswith_at(s, p, Len(s) - Len(p) + 1)

\* p in s
contains(s, p) == \E i \in 1..(Len(s) + 1) : startswith_at(s, p, i)

\* s.find(p): the lowest index (from 1), 0 for python's -1
find(s, p) ==
  IF contains(s, p)
  THEN SetMin({i \in 1..(Len(s) + 1) : startswith_at(s, p, i)})
  ELSE 0

\* the first index >= i that holds no whitespace (Len(s)+1 when none)
skip_ws(s, i) ==
  SetMin({j \in i..(Len(s) + 1) : j > Len(s) \/ ~isspace(s[j])})

RECURSIVE split_from(_, _, _, _)
split_from(s, i, cur, acc) ==
  IF i > Len(s)
  THEN (IF cur = <<>> THEN acc ELSE Append(acc, cur))
  ELSE IF isspace(s[i])
       THEN split_from(s, i + 1, <<>>, IF cur = <<>> THEN acc ELSE Append(acc, cur))
       ELSE split_from(s, i + 1, Append(cur, s[i]), acc)

\* s.split()
split(s) == split_from(s, 1, <<>>, <<>>)

\* s.rstrip('.')
rstrip_dot(s) ==
  LET keep == {i \in 1..Len(s) : s[i] # "."}
  IN IF keep = {} THEN <<>> ELSE SubSeq(s, 1, SetMax(keep))

RECURSIVE str_less_from(_, _, _)
str_less_from(a, b, i) ==
  IF i > Len(a) THEN i <= Len(b)
  ELSE IF i > Len(b) THEN FALSE
  ELSE IF a[i] = b[i] THEN str_less_from(a, b, i + 1)
  ELSE ord(a[i]) < ord(b[i])

\* a < b on python strings
str_less(a, b) == str_less_from(a, b, 1)

RECURSIVE sorted(_)
sorted(X) ==
  IF X = {} THEN <<>>
  ELSE LET m == CHOOSE x \in X : \A y \in X \ {x} : str_less(x, y)
       IN <<m>> \o sorted(X \ {m})

\* re.sub(r'\s+', ' ', s)
RECURSIVE sub_spaces_from(_, _)
sub_spaces_from(s, i) ==
  IF i > Len(s) THEN <<>>
  ELSE IF isspace(s[i]) THEN <<" ">> \o sub_spaces_from(s, skip_ws(s, i))
  ELSE <<s[i]>> \o sub_spaces_from(s, i + 1)

sub_spaces(s) == sub_spaces_from(s, 1)

\* re.sub(r'\s+and\s+', ' & ', s, flags=re.IGNORECASE): leftmost, greedy,
\* non-overlapping; the scan resumes after the whitespace a match consumed
RECURSIVE sub_and_from(_, _)
sub_and_from(s, i) ==
  IF i > Len(s) THEN <<>>
  ELSE LET j == skip_ws(s, i)
           hit == /\ isspace(s[i])
                  /\ startswith_at(lower(s), S("and"), j)
                  /\ j + 3 <= Len(s)
                  /\ isspace(s[j + 3])
       IN IF hit
          THEN S(" & ") \o sub_and_from(s, skip_ws(s, j + 3))
          ELSE <<s[i]>> \o sub_and_from(s, i + 1)

sub_and(s) == sub_and_from(s, 1)

\* one match of r',?\s*LIT\.?' (IGNORECASE) starting at i: the index after
\* the match, 0 when there is none
match_credential(s, i, lit) ==
  LET j == IF s[i] = "," THEN i + 1 ELSE i
      k == skip_ws(s, j)
      e == k + Len(lit)
  IN IF startswith_at(lower(s), lit, k)
     THEN (IF e <= Len(s) /\ s[e] = "." THEN e + 1 ELSE e)
     ELSE 0

\* re.sub(r',?\s*LIT\.?', '', s, flags=re.IGNORECASE)
RECURSIVE sub_credential_from(_, _, _)
sub_credential_from(s, i, lit) ==
  IF i > Len(s) THEN <<>>
  ELSE LET e == match_credential(s, i, lit)
       IN IF e # 0
          THEN sub_credential_from(s, e, lit)
          ELSE <<s[i]>> \o sub_credential_from(s, i + 1, lit)

sub_credential(s, lit) == sub_credential_from(s, 1, lit)

\* re.sub(r',?\s*LIT\.?$', '', s, flags=re.IGNORECASE): the leftmost match
\* that ends at the end of the string
sub_credential_at_end(s, lit) ==
  LET ends(i) ==
        LET j == IF s[i] = "," THEN i + 1 ELSE i
            k == skip_ws(s, j)
            e == k + Len(lit)
        IN /\ startswith_at(lower(s), lit, k)
           /\ \/ e = Len(s) + 1
              \/ e = Len(s) /\ s[e] = "."
      hits == {i \in 1..Len(s) : ends(i)}
  IN IF hits = {} THEN s ELSE SubSeq(s, 1, SetMin(hits) - 1)

honorifics == {S("Mr."), S("Ms."), S("Mrs."), S("Dr.")}

\* re.sub(r'^(Mr\.|Ms\.|Mrs\.|Dr\.)\s+', '', s)
sub_honorific(s) ==
  LET hs == {h \in honorifics :
               /\ startswith(s, h)
               /\ Len(h) + 1 <= Len(s)
               /\ isspace(s[Len(h) + 1])}
  IN IF hs = {} THEN s
     ELSE LET h == CHOOSE h \in hs : TRUE
          IN SubSeq(s, skip_ws(s, Len(h) + 1), Len(s))

\* ------------------------------------------------------------------------
\* Entity validator and normalizer (company_search.py)
\* ------------------------------------------------------------------------

firm_suffixes == {S("LLP"), S("LLC"), S("P.C."), S("P.A.")}

\* normalize_firm_name without the default suffix
normalize_firm_name_no_default_suffix(firm) ==
  sub_spaces(sub_and(strip(firm)))

normalize_firm_name(firm) ==
  LET stripped == strip(firm)
      amp == sub_and(stripped)
      one == sub_spaces(amp)
  IN IF \E suffix \in firm_suffixes : endswith(one, suffix)
     THEN one
     ELSE one \o S(" LLP")

normalize_lawyer_name(name) ==
  strip(sub_spaces(sub_credential(sub_credential(strip(name), S("esq")), S("p.c"))))

normalize_lawyer_name_for_matching(name) ==
  LET cleaned == sub_honorific(
                   sub_credential(sub_credential(strip(name), S("esq")), S("p.c")))
      parts == split(cleaned)
  IN IF Len(parts) = 0 THEN <<>>
     ELSE IF Len(parts) = 1 THEN lower(parts[1])
     ELSE lower(parts[1]) \o S(" ") \o lower(parts[Len(parts)])

obvious_non_persons ==
  { S("chief executive"), S("chief financial"), S("chief legal"), S("chief operating"),
    S("general counsel"), S("corporate secretary"), S("vice president"),
    S("the registrant"), S("the company"),
    S("date filed"), S("second amended"), S("this registration"),
    S("annual meeting"), S("our board"), S("board of directors"), S("special meeting") }

obvious_cities ==
  { S("menlo park"), S("redwood city"), S("san francisco"), S("new york"), S("palo alto") }

is_valid_person_name(name, company_name) ==
  LET name_lower == lower(name)
      words == split(name)
  IN /\ ~(Len(words) < 2 \/ Len(words) > 4)
     /\ \A w \in 1..Len(words) : ~(Len(words[w]) > 1 /\ ~isupper(words[w][1]))
     /\ ~\E phrase \in obvious_non_persons : contains(name_lower, phrase)
     /\ ~\E city \in obvious_cities : contains(name_lower, city)
     /\ ~(Len(rstrip_dot(words[Len(words)])) < 2)

obvious_internal_titles ==
  { S("general counsel"), S("chief legal officer"), S("corporate secretary"),
    S("chief executive officer"), S("president and ceo"), S("chief financial officer") }

is_internal_employee(name, text_near_name) ==
  LET name_idx == find(text_near_name, name)
      last == IF name_idx + 99 < Len(text_near_name)
              THEN name_idx + 99 ELSE Len(text_near_name)
      text_after_name == lower(SubSeq(text_near_name, name_idx, last))
  IN IF name_idx = 0 THEN FALSE
     ELSE \E title \in obvious_internal_titles : contains(text_after_name, title)

document_prefixes ==
  { S("opinion of"), S("exhibit"), S("exhibit to"), S("registration of"),
    S("registration statement"), S("amendment to"), S("form "), S("filing of"),
    S("supplement to"), S("prospectus"), S("preliminary prospectus") }

garbage_names ==
  { S("law_firms"), S("lawyers"), S("law firm"), S("example"), S("firm name"), S("another") }

operating_company_keywords ==
  { S("international"), S("finance"), S("financial"), S("capital"), S("holdings"),
    S("ventures"), S("trust"), S("services"), S("corporation"), S("inc."),
    S("group"), S("management"), S("investment"), S("fund"), S("partners llc") }

accounting_words ==
  { S("deloitte"), S("pwc"), S("pricewaterhousecoopers"), S("kpmg"), S("ey") }

investment_banks ==
  { S("goldman sachs"), S("morgan stanley"), S("jp morgan"), S("jpmorgan"),
    S("credit suisse"), S("ubs"), S("deutsche bank"), S("barclays"),
    S("cantor fitzgerald"), S("oppenheimer"), S("jefferies"), S("cowen"),
    S("stifel"), S("piper sandler"), S("raymond james"), S("roth capital"),
    S("needham"), S("wedbush"), S("craig-hallum"), S("btig"), S("maxim group") }

\* \b before index i / after index e - 1 of s
word_boundary(s, i) ==
  LET before == i > 1 /\ isword(s[i - 1])
      after == i <= Len(s) /\ isword(s[i])
  IN before # after

\* re.search(r'\bWORD\b', s)
search_word(s, word) ==
  \E i \in 1..Len(s) :
    /\ startswith_at(s, word, i)
    /\ word_boundary(s, i)
    /\ word_boundary(s, i + Len(word))

\* re.search(r'\bernst\s*&\s*young\b', s)
search_ernst_young(s) ==
  \E i \in 1..Len(s) :
    /\ startswith_at(s, S("ernst"), i)
    /\ word_boundary(s, i)
    /\ LET a == skip_ws(s, i + 5)
       IN /\ a <= Len(s)
          /\ s[a] = "&"
          /\ LET y == skip_ws(s, a + 1)
             IN /\ startswith_at(s, S("young"), y)
                /\ word_boundary(s, y + 5)

\* is_not_law_firm without its accounting-firm patterns
is_not_law_firm_without_accounting(firm_name, company_name) ==
  LET firm_lower == lower(firm_name)
      company_lower == lower(company_name)
      company_words == split(company_lower)
  IN \/ \E prefix \in document_prefixes : startswith(firm_lower, prefix)
     \/ \E garbage \in garbage_names : contains(firm_lower, garbage)
     \/ /\ company_name # <<>>
        /\ \/ contains(firm_lower, company_lower)
           \/ /\ Len(company_words) > 0
              /\ Len(company_words[1]) > 3
              /\ contains(firm_lower, company_words[1])
     \/ /\ contains(firm_lower, S("llc"))
        /\ ~contains(firm_lower, S("llp"))
        /\ \E keyword \in operating_company_keywords : contains(firm_lower, keyword)
     \/ \E bank \in investment_banks : contains(firm_lower, bank)
     \/ contains(firm_lower, S("& co")) /\ ~contains(firm_lower, S("llp"))

\* company_name is <<>> for python's None / empty string
is_not_law_firm(firm_name, company_name) ==
  LET firm_lower == lower(firm_name)
      company_lower == lower(company_name)
      company_words == split(company_lower)
  IN \/ \E prefix \in document_prefixes : startswith(firm_lower, prefix)
     \/ \E garbage \in garbage_names : contains(firm_lower, garbage)
     \/ /\ company_name # <<>>
        /\ \/ contains(firm_lower, company_lower)
           \/ /\ Len(company_words) > 0
              /\ Len(company_words[1]) > 3
              /\ contains(firm_lower, company_words[1])
     \/ /\ contains(firm_lower, S("llc"))
        /\ ~contains(firm_lower, S("llp"))
        /\ \E keyword \in operating_company_keywords : contains(firm_lower, keyword)
     \/ \E word \in accounting_words : search_word(firm_lower, word)
     \/ search_ernst_young(firm_lower)
     \/ \E bank \in investment_banks : contains(firm_lower, bank)
     \/ contains(firm_lower, S("& co")) /\ ~contains(firm_lower, S("llp"))

\* ------------------------------------------------------------------------
\* python dict (insertion-ordered): the keys in insertion order and the values
\* ------------------------------------------------------------------------

dict_empty == [keys |-> <<>>, val |-> [k \in {} |-> {}]]

has_key(d, k) == k \in DOMAIN d.val

\* d[k] = v
dict_assign(d, k, v) ==
  [keys |-> IF has_key(d, k) THEN d.keys ELSE Append(d.keys, k),
   val |-> [x \in DOMAIN d.val \cup {k} |-> IF x = k THEN v ELSE d.val[x]]]

\* d[k].update(elems) on a defaultdict(set)
set_update(d, k, elems) ==
  dict_assign(d, k, IF has_key(d, k) THEN d.val[k] \cup elems ELSE elems)

\* for k, v in src.items(): d[k].update(v)
RECURSIVE merge_from(_, _, _)
merge_from(d, src, i) ==
  IF i > Len(src.keys) THEN d
  ELSE merge_from(set_update(d, src.keys[i], src.val[src.keys[i]]), src, i + 1)

merge(d, src) == merge_from(d, src, 1)

\* ------------------------------------------------------------------------
\* Pattern extraction engine (company_search.py, extract_lawyers_by_regex)
\*
\* A filing text is given with what the pattern rules capture in it: for each
\* rule, in the order the rules run, the groups and the context window of
\* every match.  What the source does with a capture is computed here.
\* ------------------------------------------------------------------------

firm_only_marker == S("(Firm only - no lawyer name listed)")

\* re.split(r'\s+and\s+|,\s*', names_part)
RECURSIVE split_names_from(_, _, _, _)
split_names_from(s, i, cur, acc) ==
  IF i > Len(s) THEN Append(acc, cur)
  ELSE LET j == skip_ws(s, i)
           and_hit == /\ isspace(s[i])
                      /\ startswith_at(s, S("and"), j)
                      /\ j + 3 <= Len(s)
                      /\ isspace(s[j + 3])
       IN IF and_hit THEN split_names_from(s, skip_ws(s, j + 3), <<>>, Append(acc, cur))
          ELSE IF s[i] = "," THEN split_names_from(s, skip_ws(s, i + 1), <<>>, Append(acc, cur))
          ELSE split_names_from(s, i + 1, Append(cur, s[i]), acc)

\* names = [n.strip() for n in re.split(...) if n.strip()]
split_names(names_part) ==
  LET parts == split_names_from(names_part, 1, <<>>, <<>>)
      stripped == [i \in 1..Len(parts) |-> strip(parts[i])]
  IN SelectSeq(stripped, LAMBDA n : n # <<>>)

\* re.sub(r',\s*$', '', firm)
sub_trailing_comma(s) ==
  LET hits == {i \in 1..Len(s) : s[i] = "," /\ skip_ws(s, i + 1) = Len(s) + 1}
  IN IF hits = {} THEN s ELSE SubSeq(s, 1, SetMin(hits) - 1)

\* one match of [A-Z][a-z]+ at i: the index after it, 0 when there is none
cap_word_end(s, i) ==
  IF /\ i + 1 <= Len(s)
     /\ isupper(s[i])
     /\ s[i + 1] \in SeqRange(LOWER)
  THEN SetMin({e \in (i + 2)..(Len(s) + 1) : e > Len(s) \/ s[e] \notin SeqRange(LOWER)})
  ELSE 0

\* re.sub(r',\s+[A-Z][a-z]+(?:,\s+[A-Z][a-z]+)?$', '', firm)
sub_location(s) ==
  LET one_word(i) ==
        /\ i + 1 <= Len(s)
        /\ s[i] = ","
        /\ isspace(s[i + 1])
        /\ cap_word_end(s, skip_ws(s, i + 1)) # 0
      after(i) == cap_word_end(s, skip_ws(s, i + 1))
      hit(i) ==
        /\ one_word(i)
        /\ \/ after(i) = Len(s) + 1
           \/ one_word(after(i)) /\ after(after(i)) = Len(s) + 1
      hits == {i \in 1..Len(s) : hit(i)}
  IN IF hits = {} THEN s ELSE SubSeq(s, 1, SetMin(hits) - 1)

non_firm_words ==
  { S("neither"), S("each"), S("and"), S("or"), S("the"), S("such"), S("any"), S("all") }

\* rule 1, "Name(s) of Firm": the names accepted
pattern1_valid_names(c, company_name) ==
  LET names == split_names(c.names_part)
      cleaned == [i \in 1..Len(names) |->
                    strip(sub_credential_at_end(
                            sub_credential_at_end(sub_honorific(names[i]), S("esq")),
                            S("p.c")))]
  IN SelectSeq(cleaned, LAMBDA name :
       is_valid_person_name(name, company_name) /\ ~is_internal_employee(name, c.context))

\* rule 3, "Copies to:": the names accepted among the lines of the block
pattern3_valid_names(c, company_name) ==
  LET usable(l) ==
        /\ ~(l.line = <<>> \/ Len(l.line) < 5)
        /\ ~l.firm_like
        /\ l.name # <<>>
        /\ is_valid_person_name(strip(l.name), company_name)
        /\ ~is_internal_employee(strip(l.name), c.context)
      kept == SelectSeq(c.lines, usable)
  IN [i \in 1..Len(kept) |-> strip(kept[i].name)]

\* what one capture adds to the accumulator `results`
apply_capture(results, c, company_name) ==
  LET firm == strip(c.firm)
      name == strip(c.name)
      add_names(names) ==
        IF names = <<>> THEN results
        ELSE set_update(results, normalize_firm_name(firm),
                        {normalize_lawyer_name(names[i]) : i \in 1..Len(names)})
  IN IF c.rule = 1
     THEN IF is_not_law_firm(firm, company_name) THEN results
          ELSE add_names(pattern1_valid_names(c, company_name))
     ELSE IF c.rule \in {2, 4, 6}
     THEN IF \/ is_not_law_firm(firm, company_name)
             \/ ~is_valid_person_name(name, company_name)
             \/ is_internal_employee(name, c.context)
          THEN results
          ELSE add_names(<<name>>)
     ELSE IF c.rule = 3
     THEN IF is_not_law_firm(firm, company_name) THEN results
          ELSE add_names(pattern3_valid_names(c, company_name))
     ELSE IF c.rule = 7
     THEN LET cleaned == sub_trailing_comma(firm)
          IN IF is_not_law_firm(cleaned, company_name) THEN results
             ELSE set_update(results, normalize_firm_name(cleaned), {firm_only_marker})
     ELSE LET cleaned == sub_trailing_comma(sub_location(firm))
          IN IF \/ is_not_law_firm(cleaned, company_name)
                \/ lower(split(cleaned)[1]) \in non_firm_words
             THEN results
             ELSE set_update(results, normalize_firm_name(cleaned), {firm_only_marker})

RECURSIVE apply_captures(_, _, _, _)
apply_captures(results, captures, i, company_name) ==
  IF i > Len(captures) THEN results
  ELSE apply_captures(apply_capture(results, captures[i], company_name),
                      captures, i + 1, company_name)

\* the reference-list fallback; the found firms are visited in sorted order
RECURSIVE apply_reference(_, _, _, _)
apply_reference(results, firms, i, company_name) ==
  IF i > Len(firms) THEN results
  ELSE apply_reference(
         IF is_not_law_firm(firms[i], company_name) THEN results
         ELSE set_update(results, normalize_firm_name(firms[i]), {firm_only_marker}),
         firms, i + 1, company_name)

extract_lawyers_by_regex(text, company_name) ==
  LET results == apply_captures(dict_empty, text.captures, 1, company_name)
  IN IF Len(results.keys) = 0
     THEN apply_reference(results, sorted(text.reference), 1, company_name)
     ELSE results

\* ------------------------------------------------------------------------
\* LLM-assisted extractor (company_search.py, parse_with_openai)
\* ------------------------------------------------------------------------

placeholder_firms == {S("firm a"), S("firm b"), S("example firm")}

\* the lawyers of one firm of the response that pass the validator
llm_valid_lawyers(lawyers, text_sections, company_name) ==
  LET keep(l) ==
        /\ strip(l) # <<>>
        /\ is_valid_person_name(l, company_name)
        /\ ~(/\ contains(text_sections, l)
             /\ LET idx == find(text_sections, l)
                    last == IF idx + 199 < Len(text_sections)
                            THEN idx + 199 ELSE Len(text_sections)
                IN is_internal_employee(l, SubSeq(text_sections, idx, last)))
      kept == SelectSeq(lawyers, keep)
  IN [i \in 1..Len(kept) |-> normalize_lawyer_name(kept[i])]

RECURSIVE filter_llm_data(_, _, _, _, _)
filter_llm_data(filtered_data, data, i, text_sections, company_name) ==
  IF i > Len(data) THEN filtered_data
  ELSE LET firm == data[i].firm
           normalized_lawyers == llm_valid_lawyers(data[i].lawyers, text_sections, company_name)
           next ==
             IF \/ lower(firm) \in placeholder_firms
                \/ is_not_law_firm(firm, company_name)
                \/ normalized_lawyers = <<>>
             THEN filtered_data
             ELSE dict_assign(filtered_data, normalize_firm_name(firm), normalized_lawyers)
       IN filter_llm_data(next, data, i + 1, text_sections, company_name)

\* answered: some attempt returned a parsable JSON object (text.llm);
\* otherwise every attempt failed and the result is {}
parse_with_openai(text, company_name, answered) ==
  IF answered
  THEN filter_llm_data(dict_empty, text.llm, 1, text.text, company_name)
  ELSE dict_empty

\* ------------------------------------------------------------------------
\* One filing task (company_search.py, process_single_filing)
\* ------------------------------------------------------------------------

\* what the GET of the document URL yields: an exception, a status other than
\* 200, or a 200 body whose text has the given length
FetchResults == {"exception", "not_200", "short_text", "text"}

\* extract_counsel_sections without the `len(text) < 5000` test
extract_counsel_sections_any_length(fetch) == fetch \in {"text", "short_text"}

\* None unless the document was fetched with at least 5000 characters of text
extract_counsel_sections(fetch) == fetch = "text"

\* for firm, lawyers in firm_lawyers_dict.items(): firm_to_lawyers[firm].update(lawyers)
RECURSIVE update_from_lists(_, _, _)
update_from_lists(d, src, i) ==
  IF i > Len(src.keys) THEN d
  ELSE update_from_lists(
         set_update(d, src.keys[i], SeqRange(src.val[src.keys[i]])), src, i + 1)

\* the firm-only fallback: the first potential firm that passes the basic validation
firm_only_fallback(text, company_name) ==
  LET ok == SelectSeq(text.firm_only, LAMBDA m :
              ~is_not_law_firm(strip(m), company_name) /\ Len(strip(m)) > 10)
  IN IF ok = <<>> THEN dict_empty
     ELSE dict_assign(dict_empty, normalize_firm_name(strip(ok[1])), {})

\* the LLM map assigned over the regex map: firm_to_lawyers[firm] = set(lawyers)
RECURSIVE assign_from_lists(_, _, _)
assign_from_lists(d, src, i) ==
  IF i > Len(src.keys) THEN d
  ELSE assign_from_lists(
         dict_assign(d, src.keys[i], SeqRange(src.val[src.keys[i]])), src, i + 1)

both_extractors_llm_overrides(regex_results, firm_lawyers_dict) ==
  assign_from_lists(merge(dict_empty, regex_results), firm_lawyers_dict, 1)

\* firm_to_lawyers after both extractors: the regex map, then the LLM map
both_extractors(regex_results, firm_lawyers_dict) ==
  update_from_lists(merge(dict_empty, regex_results), firm_lawyers_dict, 1)

\* if not firm_to_lawyers: the firm-only fallback
or_firm_only(firm_to_lawyers, text, company_name) ==
  IF Len(firm_to_lawyers.keys) = 0
  THEN firm_only_fallback(text, company_name)
  ELSE firm_to_lawyers

\* if not firm_to_lawyers: raise Exception("No lawyers found"); return it
raise_or_return(firm_to_lawyers, regex_results, firm_lawyers_dict) ==
  [raised |-> IF Len(firm_to_lawyers.keys) = 0 THEN "No lawyers found" ELSE "",
   result |-> firm_to_lawyers,
   regex_results |-> regex_results,
   llm_results |-> firm_lawyers_dict]

\* the task after the text was extracted
process_extracted(regex_results, firm_lawyers_dict, text, company_name) ==
  raise_or_return(
    or_firm_only(both_extractors(regex_results, firm_lawyers_dict), text, company_name),
    regex_results, firm_lawyers_dict)

\* the outcome of the task: the exception raised ("" when it returned), the
\* map returned, and the maps of the two extractors
process_single_filing(text, fetch, answered, company_name) ==
  IF ~extract_counsel_sections(fetch)
  THEN [raised |-> "No text extracted", result |-> dict_empty,
        regex_results |-> dict_empty, llm_results |-> dict_empty]
  ELSE process_extracted(extract_lawyers_by_regex(text, company_name),
                         parse_with_openai(text, company_name, answered),
                         text, company_name)

\* ------------------------------------------------------------------------
\* Filing texts
\* ------------------------------------------------------------------------

company_name_of_search == S("Acme Widgets Inc")

\* a narrative "Names of Firm" mention
FilingText1 ==
    [ text |-> S("The registrant. Carlos Ramirez and Nicholaus Johnson of Cooley LLP will advise."),
      captures |-> <<[rule |-> 1, names_part |-> S("Carlos Ramirez and Nicholaus Johnson"), name |-> <<>>, lines |-> <<>>, firm |-> S("Cooley LLP"), context |-> S("The registrant. Carlos Ramirez and Nicholaus Johnson of Cooley LLP will advise.")]>>,
      reference |-> {S("Cooley LLP")},
      firm_only |-> <<>>,
      llm |-> <<[firm |-> S("Cooley LLP"), lawyers |-> <<S("Carlos Ramirez"), S("Nicholaus Johnson")>>]>> ]

\* a "Copies to:" block listing two spellings of one attorney
FilingText2 ==
    [ text |-> S("Copies to:\nMichelle A. Wong, Esq.\nMichelle Wong\nLatham & Watkins LLP\n"),
      captures |-> <<[rule |-> 2, names_part |-> <<>>, name |-> S("Michelle Wong"), lines |-> <<>>, firm |-> S("Latham & Watkins LLP"), context |-> S("Michelle Wong\nLatham & Watkins LLP\n")], [rule |-> 3, names_part |-> <<>>, name |-> <<>>, lines |-> <<[line |-> S("Michelle A. Wong, Esq."), firm_like |-> FALSE, name |-> S("Michelle A. Wong")], [line |-> S("Michelle Wong"), firm_like |-> FALSE, name |-> S("Michelle Wong")]>>, firm |-> S("Latham & Watkins LLP"), context |-> S("Copies to:\nMichelle A. Wong, Esq.\nMichelle Wong\nLatham & Watkins LLP\n")]>>,
      reference |-> {S("Latham & Watkins LLP")},
      firm_only |-> <<>>,
      llm |-> <<[firm |-> S("Latham and Watkins"), lawyers |-> <<S("Michelle A. Wong, Esq."), S("John Smith3")>>]>> ]

\* a bare firm mention in the legal-matters section
FilingText3 ==
    [ text |-> S("LEGAL MATTERS\nThe validity of the shares will be passed upon for us by Kirkland & Ellis LLP, Chicago, Illinois."),
      captures |-> <<[rule |-> 7, names_part |-> <<>>, name |-> <<>>, lines |-> <<>>, firm |-> S("Kirkland & Ellis LLP"), context |-> <<>>], [rule |-> 8, names_part |-> <<>>, name |-> <<>>, lines |-> <<>>, firm |-> S("Kirkland & Ellis LLP"), context |-> <<>>]>>,
      reference |-> {S("Kirkland & Ellis LLP")},
      firm_only |-> <<S("The validity of the shares will be passed upon for us by Kirkland & Ellis LLP")>>,
      llm |-> <<[firm |-> S("Kirkland & Ellis LLP"), lawyers |-> <<>>]>> ]

\* a third spelling of the attorney of the "Copies to:" block
FilingText4 ==
    [ text |-> S("Michelle B. Wong of Latham & Watkins LLP acted as counsel."),
      captures |-> <<[rule |-> 1, names_part |-> S("Michelle B. Wong"), name |-> <<>>, lines |-> <<>>, firm |-> S("Latham & Watkins LLP"), context |-> S("Michelle B. Wong of Latham & Watkins LLP acted as counsel.")]>>,
      reference |-> {S("Latham & Watkins LLP")},
      firm_only |-> <<>>,
      llm |-> <<[firm |-> S("Latham & Watkins LLP"), lawyers |-> <<S("Michelle B. Wong")>>], [firm |-> S("Deloitte LLP"), lawyers |-> <<S("Jane Doe")>>]>> ]

\* a legal-matters section whose firm no pattern rule captures
FilingText5 ==
    [ text |-> S("Legal Matters\ndavis polk LLP is counsel."),
      captures |-> <<>>,
      reference |-> {},
      firm_only |-> <<S("davis polk LLP")>>,
      llm |-> <<>> ]

\* a signature block of in-house counsel
FilingText6 ==
    [ text |-> S("By: John Smith\nAcme Law P.C.\nJohn Smith, General Counsel"),
      captures |-> <<[rule |-> 2, names_part |-> <<>>, name |-> S("John Smith"), lines |-> <<>>, firm |-> S("Acme Law P.C."), context |-> S("John Smith\nAcme Law P.C.\nJohn Smith, General Counsel")], [rule |-> 4, names_part |-> <<>>, name |-> S("John Smith"), lines |-> <<>>, firm |-> S("Acme Law P.C."), context |-> S("By: John Smith\nAcme Law P.C.\nJohn Smith, General Counsel")]>>,
      reference |-> {},
      firm_only |-> <<>>,
      llm |-> <<[firm |-> S("Acme Law P.C."), lawyers |-> <<S("John Smith")>>]>> ]

\* a legal-matters section that names an attorney of the firm
FilingText7 ==
    [ text |-> S("LEGAL MATTERS\nCarlos Ramirez of Cooley LLP will pass upon the validity of the shares."),
      captures |-> <<[rule |-> 1, names_part |-> S("Carlos Ramirez"), name |-> <<>>, lines |-> <<>>, firm |-> S("Cooley LLP"), context |-> S("LEGAL MATTERS\nCarlos Ramirez of Cooley LLP will pass upon the validity of the shares.")], [rule |-> 8, names_part |-> <<>>, name |-> <<>>, lines |-> <<>>, firm |-> S("Cooley LLP"), context |-> <<>>]>>,
      reference |-> {S("Cooley LLP")},
      firm_only |-> <<S("Carlos Ramirez of Cooley LLP")>>,
      llm |-> <<[firm |-> S("Cooley LLP"), lawyers |-> <<S("Carlos Ramirez")>>], [firm |-> S("Level 3 Legal LLP"), lawyers |-> <<S("Jane Doe")>>]>> ]

FilingTexts ==
  <<FilingText1, FilingText2, FilingText3, FilingText4, FilingText5, FilingText6,
    FilingText7>>

\* ------------------------------------------------------------------------
\* State
\* ------------------------------------------------------------------------

VARIABLES
  nf,   \* a caller of normalize_firm_name: its argument and the values returned
  rr,   \* determine_optimal_date_range: probe counts and the window selected
  pg,   \* search_paginated: the locals of one call
  dd,   \* deduplicate_firm_lawyers: the locals of one call
  sc,   \* search_company_for_lawyers: the locals of one call and its futures
  vl,   \* a call of is_valid_person_name or is_not_law_firm: argument and verdict
  tk,   \* process_single_filing in its worker: the locals of one call, step by step
  lf    \* search_law_firm_for_companies: the locals of one call, its futures and the module globals

vars == <<nf, rr, pg, dd, sc, vl, tk, lf>>

Idle == [pc |-> "idle"]

\* ------------------------------------------------------------------------
\* Firm normalization applied to its own output
\* ------------------------------------------------------------------------

\* number of tokens an argument of normalize_firm_name is built from
MaxTokens == 4

FirmTokens == {S("Ab"), S(" "), S("and"), S("LLP"), S("\t")}

RECURSIVE TokenStrings(_)
TokenStrings(n) ==
  IF n = 0 THEN {<<>>}
  ELSE LET shorter == TokenStrings(n - 1)
       IN shorter \cup {s \o t : s \in shorter, t \in FirmTokens}

\* a candidate firm name is never blank
FirmInputs == {f \in TokenStrings(MaxTokens) : strip(f) # <<>>}

NfInit ==
  nf \in {[pc |-> "input", firm |-> f, once |-> <<>>, twice |-> <<>>] : f \in FirmInputs}

\* normalized = normalize_firm_name(firm)
normalize_once ==
  /\ nf.pc = "input"
  /\ nf' = [nf EXCEPT !.pc = "once", !.once = normalize_firm_name(nf.firm)]
  /\ UNCHANGED <<rr, pg, dd, sc, vl, tk, lf>>

\* normalize_firm_name(normalized), as when a normalized key is normalized again
normalize_twice ==
  /\ nf.pc = "once"
  /\ nf' = [nf EXCEPT !.pc = "twice", !.twice = normalize_firm_name(nf.once)]
  /\ UNCHANGED <<rr, pg, dd, sc, vl, tk, lf>>

NextNormalize == normalize_once \/ normalize_twice

InitNormalize == NfInit /\ rr = Idle /\ pg = Idle /\ dd = Idle /\ sc = Idle /\ vl = Idle /\ tk = Idle /\ lf = Idle

SpecNormalize == InitNormalize /\ [][NextNormalize]_vars

\* ------------------------------------------------------------------------
\* Adaptive range resolver (utils.py)
\* ------------------------------------------------------------------------

TARGET_COMPANIES == 100

\* largest unique-company count a probe reports
MaxCount == 110

\* the resolver with the 4-year floor of 30 compared strictly
determine_optimal_date_range_strict_floor(count_2yr, count_4yr) ==
  IF count_2yr >= TARGET_COMPANIES THEN 730
  ELSE IF count_2yr >= 40 THEN 730
  ELSE IF count_4yr >= TARGET_COMPANIES THEN 1095
  ELSE IF count_4yr > 30 THEN 1460
  ELSE IF count_4yr >= 15 THEN 1825
  ELSE 2555

\* the days of the window selected for the two probe counts
determine_optimal_date_range(count_2yr, count_4yr) ==
  IF count_2yr >= TARGET_COMPANIES THEN 730
  ELSE IF count_2yr >= 40 THEN 730
  ELSE IF count_4yr >= TARGET_COMPANIES THEN 1095
  ELSE IF count_4yr >= 30 THEN 1460
  ELSE IF count_4yr >= 15 THEN 1825
  ELSE 2555

final_range(days) ==
  IF days = 730 THEN "2 years"
  ELSE IF days = 1095 THEN "3 years"
  ELSE IF days = 1460 THEN "4 years"
  ELSE IF days = 1825 THEN "5 years"
  ELSE "7 years"

RrInit ==
  rr \in {[pc |-> "probed", count_2yr |-> a, count_4yr |-> b, days |-> 0, final_range |-> ""] :
            a \in 0..MaxCount, b \in 0..MaxCount}

decide_range ==
  /\ rr.pc = "probed"
  /\ LET days == determine_optimal_date_range(rr.count_2yr, rr.count_4yr)
     IN rr' = [rr EXCEPT !.pc = "decided", !.days = days, !.final_range = final_range(days)]
  /\ UNCHANGED <<nf, pg, dd, sc, vl, tk, lf>>

\* a later call whose 2-year probe finds one company fewer
decide_again_fewer_2yr ==
  /\ rr.pc = "decided"
  /\ rr.count_2yr > 0
  /\ LET days == determine_optimal_date_range(rr.count_2yr - 1, rr.count_4yr)
     IN rr' = [rr EXCEPT !.count_2yr = @ - 1, !.days = days, !.final_range = final_range(days)]
  /\ UNCHANGED <<nf, pg, dd, sc, vl, tk, lf>>

\* a later call whose 4-year probe finds one company fewer
decide_again_fewer_4yr ==
  /\ rr.pc = "decided"
  /\ rr.count_4yr > 0
  /\ LET days == determine_optimal_date_range(rr.count_2yr, rr.count_4yr - 1)
     IN rr' = [rr EXCEPT !.count_4yr = @ - 1, !.days = days, !.final_range = final_range(days)]
  /\ UNCHANGED <<nf, pg, dd, sc, vl, tk, lf>>

NextRange == decide_range \/ decide_again_fewer_2yr \/ decide_again_fewer_4yr

InitRange == RrInit /\ nf = Idle /\ pg = Idle /\ dd = Idle /\ sc = Idle /\ vl = Idle /\ tk = Idle /\ lf = Idle

SpecRange == InitRange /\ [][NextRange]_vars

\* ------------------------------------------------------------------------
\* Paginated collector (utils.py)
\* ------------------------------------------------------------------------

page_size == 100

max_stale_pages == 3

\* number of distinct clean company names the search index knows
MaxCompanies == 3

Companies == 1..MaxCompanies

\* hits on one page (search_edgar asks for min(max_results, 100))
PageSizes == {0, 1, 2, page_size}

\* total hit counts the index reports
Totals == {0, 150, 1000000}

\* the max_total of the callers: count_unique_companies, and the reverse searches
MaxTotals == {500, 10000}

\* One response of search_edgar: `size` hits, the non-empty clean company
\* names among them, and the reported total.
Pages ==
  {[size |-> n, names |-> c, total |-> t] :
     n \in PageSizes, c \in SUBSET Companies, t \in Totals}

ValidPage(page) == Cardinality(page.names) <= page.size

\* search_paginated_iteration without the loop test `len(all_results) < max_total`
search_paginated_iteration_uncapped(st, page) ==
  IF page.size = 0
  THEN [st EXCEPT !.pc = "returned", !.total = page.total, !.requests = @ + 1]
  ELSE
    LET new_companies_this_page == Cardinality(page.names \ st.seen_companies)
        all_results == st.all_results + page.size
        reached_total == all_results >= page.total
        stale == new_companies_this_page = 0
        pages_without_new_companies ==
          IF reached_total THEN st.pages_without_new_companies
          ELSE IF stale THEN st.pages_without_new_companies + 1
          ELSE 0
        stop ==
          \/ reached_total
          \/ stale /\ pages_without_new_companies >= max_stale_pages
    IN [st EXCEPT
          !.pc = IF stop THEN "returned" ELSE "loop",
          !.all_results = all_results,
          !.start_index = @ + page_size,
          !.seen_companies = @ \cup page.names,
          !.pages_without_new_companies = pages_without_new_companies,
          !.total = page.total,
          !.requests = @ + 1,
          !.new_last_page = new_companies_this_page,
          !.stale_run = IF stale THEN @ + 1 ELSE 0]

\* search_paginated_iteration with the stale-page test `>` in place of `>=`
search_paginated_iteration_late_cutoff(st, page) ==
  IF page.size = 0
  THEN [st EXCEPT !.pc = "returned", !.total = page.total, !.requests = @ + 1]
  ELSE
    LET new_companies_this_page == Cardinality(page.names \ st.seen_companies)
        all_results == st.all_results + page.size
        reached_total == all_results >= page.total
        stale == new_companies_this_page = 0
        pages_without_new_companies ==
          IF reached_total THEN st.pages_without_new_companies
          ELSE IF stale THEN st.pages_without_new_companies + 1
          ELSE 0
        stop ==
          \/ reached_total
          \/ stale /\ pages_without_new_companies > max_stale_pages
          \/ ~(all_results < st.max_total)
    IN [st EXCEPT
          !.pc = IF stop THEN "returned" ELSE "loop",
          !.all_results = all_results,
          !.start_index = @ + page_size,
          !.seen_companies = @ \cup page.names,
          !.pages_without_new_companies = pages_without_new_companies,
          !.total = page.total,
          !.requests = @ + 1,
          !.new_last_page = new_companies_this_page,
          !.stale_run = IF stale THEN @ + 1 ELSE 0]

\* the loop body of search_paginated once search_edgar has returned `page`,
\* and the loop test that follows it
search_paginated_iteration(st, page) ==
  IF page.size = 0
  THEN [st EXCEPT !.pc = "returned", !.total = page.total, !.requests = @ + 1]
  ELSE
    LET new_companies_this_page == Cardinality(page.names \ st.seen_companies)
        all_results == st.all_results + page.size
        reached_total == all_results >= page.total
        stale == new_companies_this_page = 0
        pages_without_new_companies ==
          IF reached_total THEN st.pages_without_new_companies
          ELSE IF stale THEN st.pages_without_new_companies + 1
          ELSE 0
        stop ==
          \/ reached_total
          \/ stale /\ pages_without_new_companies >= max_stale_pages
          \/ ~(all_results < st.max_total)
    IN [st EXCEPT
          !.pc = IF stop THEN "returned" ELSE "loop",
          !.all_results = all_results,
          !.start_index = @ + page_size,
          !.seen_companies = @ \cup page.names,
          !.pages_without_new_companies = pages_without_new_companies,
          !.total = page.total,
          !.requests = @ + 1,
          !.new_last_page = new_companies_this_page,
          !.stale_run = IF stale THEN @ + 1 ELSE 0]

\* requests counts the calls of search_edgar; new_last_page and stale_run
\* record what the pages contributed (the names new on the last page, and the
\* number of latest consecutive pages that brought no new name)
PgInit ==
  pg \in {[pc |-> "loop", max_total |-> m, all_results |-> 0, start_index |-> 0,
           seen_companies |-> {}, pages_without_new_companies |-> 0, total |-> 0,
           requests |-> 0, new_last_page |-> 0, stale_run |-> 0] : m \in MaxTotals}

\* one iteration: search_edgar returns a page
fetch_page ==
  /\ pg.pc = "loop"
  /\ \E page \in Pages :
       /\ ValidPage(page)
       /\ pg' = search_paginated_iteration(pg, page)
  /\ UNCHANGED <<nf, rr, dd, sc, vl, tk, lf>>

\* one iteration: search_edgar raises (requests.exceptions.RequestException)
fetch_raises ==
  /\ pg.pc = "loop"
  /\ pg' = [pg EXCEPT !.pc = "raised", !.requests = @ + 1]
  /\ UNCHANGED <<nf, rr, dd, sc, vl, tk, lf>>

NextPaginated == fetch_page \/ fetch_raises

InitPaginated == PgInit /\ nf = Idle /\ rr = Idle /\ dd = Idle /\ sc = Idle /\ vl = Idle /\ tk = Idle /\ lf = Idle

SpecPaginated == InitPaginated /\ [][NextPaginated]_vars

\* every search_edgar call returns or raises: the loop always takes its next step
SpecPaginatedFair == SpecPaginated /\ WF_vars(NextPaginated)

\* ------------------------------------------------------------------------
\* Deduplicator (company_search.py, deduplicate_firm_lawyers)
\*
\* `for lawyer in lawyers` iterates a python set: the order is not fixed by
\* the program, so the next lawyer visited is any lawyer not yet visited.
\* ------------------------------------------------------------------------

no_seen == [k \in {} |-> <<>>]

\* the call deduplicate_firm_lawyers(firm_to_lawyers) before its first iteration
dedup_call(firm_to_lawyers) ==
  [pc |-> "run", firm_to_lawyers |-> firm_to_lawyers, i |-> 0, lawyers_left |-> {},
   seen_normalized |-> no_seen, deduplicated |-> dict_empty]

\* dedup_visit that adds the longer variant without discarding the one it replaces
dedup_visit_keeps_existing(st, lawyer) ==
  LET firm == st.firm_to_lawyers.keys[st.i]
      normalized == normalize_lawyer_name_for_matching(lawyer)
      seen == st.seen_normalized
      record == [x \in DOMAIN seen \cup {normalized} |->
                   IF x = normalized THEN lawyer ELSE seen[x]]
  IN IF normalized \notin DOMAIN seen
     THEN [st EXCEPT !.seen_normalized = record,
                     !.deduplicated = set_update(@, firm, {lawyer})]
     ELSE IF Len(lawyer) > Len(seen[normalized])
          THEN [st EXCEPT !.seen_normalized = record,
                          !.deduplicated = set_update(@, firm, {lawyer})]
          ELSE st

\* the body of `for lawyer in lawyers` for the firm at index st.i
dedup_visit(st, lawyer) ==
  LET firm == st.firm_to_lawyers.keys[st.i]
      normalized == normalize_lawyer_name_for_matching(lawyer)
      seen == st.seen_normalized
      record == [x \in DOMAIN seen \cup {normalized} |->
                   IF x = normalized THEN lawyer ELSE seen[x]]
  IN IF normalized \notin DOMAIN seen
     THEN [st EXCEPT !.seen_normalized = record,
                     !.deduplicated = set_update(@, firm, {lawyer})]
     ELSE LET existing == seen[normalized]
          IN IF Len(lawyer) > Len(existing)
             THEN [st EXCEPT
                     !.seen_normalized = record,
                     !.deduplicated =
                        dict_assign(@, firm, (@.val[firm] \ {existing}) \cup {lawyer})]
             ELSE st

\* for firm, lawyers in firm_to_lawyers.items(): seen_normalized = {}
dedup_next_firm ==
  /\ dd.pc = "run"
  /\ dd.lawyers_left = {}
  /\ dd.i < Len(dd.firm_to_lawyers.keys)
  /\ dd' = [dd EXCEPT !.i = @ + 1,
                      !.lawyers_left = dd.firm_to_lawyers.val[dd.firm_to_lawyers.keys[dd.i + 1]],
                      !.seen_normalized = no_seen]
  /\ UNCHANGED <<nf, rr, pg, sc, vl, tk, lf>>

dedup_visit_lawyer ==
  /\ dd.pc = "run"
  /\ \E lawyer \in dd.lawyers_left :
       dd' = [dedup_visit(dd, lawyer) EXCEPT !.lawyers_left = @ \ {lawyer}]
  /\ UNCHANGED <<nf, rr, pg, sc, vl, tk, lf>>

\* return deduplicated
dedup_return ==
  /\ dd.pc = "run"
  /\ dd.lawyers_left = {}
  /\ dd.i = Len(dd.firm_to_lawyers.keys)
  /\ dd' = [dd EXCEPT !.pc = "done"]
  /\ UNCHANGED <<nf, rr, pg, sc, vl, tk, lf>>

\* number of lawyer strings the argument of a call is drawn from
MaxLawyers == 4

LawyerPool ==
  << S("Michelle A. Wong"), S("Michelle Wong"), S("Michelle B. Wong"),
     S("John Smith"), S("Mr. John Smith"), firm_only_marker >>

LawyerStrings ==
  {LawyerPool[i] : i \in 1..(IF MaxLawyers < Len(LawyerPool) THEN MaxLawyers ELSE Len(LawyerPool))}

\* maps of one or two firms, every set of lawyer strings for each (the empty
\* set too: the firm-only fallback of process_single_filing produces it)
DedupInputs ==
  {dict_assign(dict_empty, S("Latham & Watkins LLP"), a) : a \in SUBSET LawyerStrings}
  \cup
  {dict_assign(dict_assign(dict_empty, S("Latham & Watkins LLP"), a), S("Cooley LLP"), b) :
     a \in SUBSET LawyerStrings, b \in SUBSET LawyerStrings}

NextDedup == dedup_next_firm \/ dedup_visit_lawyer \/ dedup_return

InitDedup ==
  /\ dd \in {dedup_call(m) : m \in DedupInputs}
  /\ nf = Idle /\ rr = Idle /\ pg = Idle /\ sc = Idle
  /\ vl = Idle /\ tk = Idle /\ lf = Idle

SpecDedup == InitDedup /\ [][NextDedup]_vars

\* ------------------------------------------------------------------------
\* Concurrency orchestrator (company_search.py, search_company_for_lawyers)
\* ------------------------------------------------------------------------

max_workers == 5

\* number of filings get_company_filings returns
MaxFilings == 2

\* the filings found, each by the index of its text; futures complete in any
\* order, so only lists in index order are enumerated
RECURSIVE FilingListsOf(_)
FilingListsOf(n) ==
  IF n = 0 THEN {<<>>}
  ELSE UNION {{Append(l, d) : d \in {x \in 1..Len(FilingTexts) :
                                        \A k \in 1..Len(l) : l[k] <= x}} :
              l \in FilingListsOf(n - 1)}

FilingLists == UNION {FilingListsOf(n) : n \in 1..MaxFilings}

no_outcome == [raised |-> "", result |-> dict_empty,
               regex_results |-> dict_empty, llm_results |-> dict_empty]

ScInit ==
  sc = [pc |-> "start", filings |-> <<>>, futures |-> <<>>, handled |-> {},
        completed |-> 0, success_count |-> 0, failed_count |-> 0,
        no_text_count |-> 0, no_lawyers_count |-> 0,
        firm_to_lawyers |-> dict_empty, df |-> <<>>, error |-> ""]

\* get_cik_from_ticker finds no company: raise ValueError
lookup_fails ==
  /\ sc.pc = "start"
  /\ sc' = [sc EXCEPT !.pc = "raised", !.error = "Company not found"]
  /\ UNCHANGED <<nf, rr, pg, dd, vl, tk, lf>>

\* get_company_filings returns no filing: raise ValueError
no_filings ==
  /\ sc.pc = "start"
  /\ sc' = [sc EXCEPT !.pc = "raised", !.error = "No relevant filings found"]
  /\ UNCHANGED <<nf, rr, pg, dd, vl, tk, lf>>

\* executor.submit(process_single_filing, filing, ...) for every filing
submit_filings ==
  /\ sc.pc = "start"
  /\ \E filings \in FilingLists :
       sc' = [sc EXCEPT !.pc = "pool", !.filings = filings,
                        !.futures = [t \in 1..Len(filings) |->
                                       [state |-> "queued", outcome |-> no_outcome]]]
  /\ UNCHANGED <<nf, rr, pg, dd, vl, tk, lf>>

Tasks == 1..Len(sc.futures)

\* a free worker takes the oldest queued work item
start_task ==
  /\ sc.pc = "pool"
  /\ Cardinality({t \in Tasks : sc.futures[t].state = "running"}) < max_workers
  /\ \E t \in Tasks :
       /\ sc.futures[t].state = "queued"
       /\ \A u \in 1..(t - 1) : sc.futures[u].state # "queued"
       /\ sc' = [sc EXCEPT !.futures[t].state = "running"]
  /\ UNCHANGED <<nf, rr, pg, dd, vl, tk, lf>>

\* what process_single_filing can do with each filing: the download fails or
\* succeeds, the LLM answers or does not
FilingOutcomes ==
  {<<d, process_single_filing(FilingTexts[d], fetch, answered, company_name_of_search)>> :
     d \in 1..Len(FilingTexts), fetch \in FetchResults, answered \in BOOLEAN}

\* process_single_filing returns or raises in its worker
finish_task ==
  /\ sc.pc = "pool"
  /\ \E t \in Tasks, o \in FilingOutcomes :
       /\ sc.futures[t].state = "running"
       /\ o[1] = sc.filings[t]
       /\ sc' = [sc EXCEPT !.futures[t] = [state |-> "finished", outcome |-> o[2]]]
  /\ UNCHANGED <<nf, rr, pg, dd, vl, tk, lf>>

\* collect_future without the except clause's failed_count += 1
collect_future_uncounted_failure(st, t) ==
  LET outcome == st.futures[t].outcome
      counted == [st EXCEPT !.handled = @ \cup {t}, !.completed = @ + 1]
  IN IF outcome.raised = "" /\ Len(outcome.result.keys) > 0
     THEN [counted EXCEPT !.success_count = @ + 1,
                          !.firm_to_lawyers = merge(@, outcome.result)]
     ELSE counted

\* collect_future without the try: the exception of future.result() leaves the loop
collect_future_unguarded(st, t) ==
  LET outcome == st.futures[t].outcome
      counted == [st EXCEPT !.handled = @ \cup {t}, !.completed = @ + 1]
  IN IF outcome.raised = ""
     THEN IF Len(outcome.result.keys) > 0
          THEN [counted EXCEPT !.success_count = @ + 1,
                               !.firm_to_lawyers = merge(@, outcome.result)]
          ELSE counted
     ELSE [counted EXCEPT !.pc = "raised", !.error = outcome.raised]

\* the body of `for future in as_completed(future_to_filing)` for future t
\* (progress_callback only displays a message and is taken to return)
collect_future(st, t) ==
  LET outcome == st.futures[t].outcome
      counted == [st EXCEPT !.handled = @ \cup {t}, !.completed = @ + 1]
  IN IF outcome.raised = ""
     THEN IF Len(outcome.result.keys) > 0
          THEN [counted EXCEPT !.success_count = @ + 1,
                               !.firm_to_lawyers = merge(@, outcome.result)]
          ELSE counted
     ELSE [counted EXCEPT
             !.failed_count = @ + 1,
             !.no_text_count = IF outcome.raised = "No text extracted" THEN @ + 1 ELSE @,
             !.no_lawyers_count = IF outcome.raised = "No lawyers found" THEN @ + 1 ELSE @]

\* as_completed yields a finished future
collect ==
  /\ sc.pc = "pool"
  /\ \E t \in Tasks \ sc.handled :
       /\ sc.futures[t].state = "finished"
       /\ sc' = collect_future(sc, t)
  /\ UNCHANGED <<nf, rr, pg, dd, vl, tk, lf>>

\* every future was yielded: raise ValueError when nothing was merged, else
\* call deduplicate_firm_lawyers
end_of_batch ==
  /\ sc.pc = "pool"
  /\ sc.handled = Tasks
  /\ IF Len(sc.firm_to_lawyers.keys) = 0
     THEN /\ sc' = [sc EXCEPT !.pc = "raised", !.error = "No lawyers found for company"]
          /\ UNCHANGED dd
     ELSE /\ sc' = [sc EXCEPT !.pc = "dedup"]
          /\ dd' = dedup_call(sc.firm_to_lawyers)
  /\ UNCHANGED <<nf, rr, pg, vl, tk, lf>>

\* the rows of one firm: its lawyers sorted, or one row with an empty lawyer
firm_rows(firm, lawyers) ==
  IF lawyers # {}
  THEN LET names == sorted(lawyers)
       IN [i \in 1..Len(names) |-> [firm |-> firm, lawyer |-> names[i]]]
  ELSE <<[firm |-> firm, lawyer |-> <<>>]>>

RECURSIVE result_rows(_, _)
result_rows(d, i) ==
  IF i > Len(d.keys) THEN <<>>
  ELSE firm_rows(d.keys[i], d.val[d.keys[i]]) \o result_rows(d, i + 1)

\* df.drop_duplicates(subset=['Law Firm', 'Lawyer'], keep='first')
RECURSIVE drop_duplicates_from(_, _)
drop_duplicates_from(rows, i) ==
  IF i > Len(rows) THEN <<>>
  ELSE (IF \E j \in 1..(i - 1) : rows[j] = rows[i] THEN <<>> ELSE <<rows[i]>>)
       \o drop_duplicates_from(rows, i + 1)

drop_duplicates(rows) == drop_duplicates_from(rows, 1)

\* the table returned for the deduplicated map
relationship_table(deduplicated) == drop_duplicates(result_rows(deduplicated, 1))

\* results, pd.DataFrame(results), drop_duplicates, return df
build_table ==
  /\ sc.pc = "dedup"
  /\ dd.pc = "done"
  /\ sc' = [sc EXCEPT !.pc = "done", !.firm_to_lawyers = dd.deduplicated,
                      !.df = relationship_table(dd.deduplicated)]
  /\ UNCHANGED <<nf, rr, pg, dd, vl, tk, lf>>

Next ==
  \/ lookup_fails
  \/ no_filings
  \/ submit_filings
  \/ start_task
  \/ finish_task
  \/ collect
  \/ end_of_batch
  \/ dedup_next_firm
  \/ dedup_visit_lawyer
  \/ dedup_return
  \/ build_table

Init == ScInit /\ nf = Idle /\ rr = Idle /\ pg = Idle /\ dd = Idle /\ vl = Idle /\ tk = Idle /\ lf = Idle

Spec == Init /\ [][Next]_vars

\* ------------------------------------------------------------------------
\* Person validity applied to candidate names (company_search.py,
\* is_valid_person_name)
\* ------------------------------------------------------------------------

\* number of words a candidate name is built from
MaxWords == 3

PersonWords ==
  { S("John"), S("Smith"), S("Jane"), S("K."), S("Doe"), S("Chief"), S("Legal"),
    S("Officer"), S("The"), S("Registrant"), S("Goldman"), S("Sachs") }

\* the words joined by single spaces
RECURSIVE WordStrings(_, _)
WordStrings(words, n) ==
  IF n = 1 THEN words
  ELSE {a \o S(" ") \o b : a \in WordStrings(words, n - 1), b \in words}

PersonInputs == UNION {WordStrings(PersonWords, n) : n \in 1..MaxWords}

\* the company_name argument: None, or the company of the search
CompanyArguments == {<<>>, company_name_of_search}

VlPersonInit ==
  vl \in {[pc |-> "call", name |-> n, company_name |-> c, verdict |-> FALSE] :
            n \in PersonInputs, c \in CompanyArguments}

validate_person ==
  /\ vl.pc = "call"
  /\ vl' = [vl EXCEPT !.pc = "returned",
                      !.verdict = is_valid_person_name(vl.name, vl.company_name)]
  /\ UNCHANGED <<nf, rr, pg, dd, sc, tk, lf>>

NextPerson == validate_person

InitPerson ==
  /\ VlPersonInit
  /\ nf = Idle /\ rr = Idle /\ pg = Idle /\ dd = Idle /\ sc = Idle /\ tk = Idle /\ lf = Idle

SpecPerson == InitPerson /\ [][NextPerson]_vars

\* ------------------------------------------------------------------------
\* Firm validity applied to candidate names (company_search.py,
\* is_not_law_firm)
\* ------------------------------------------------------------------------

\* number of words a candidate firm name is built from
MaxFirmWords == 3

FirmWords ==
  { S("Deloitte"), S("PwC"), S("PricewaterhouseCoopers"), S("KPMG"), S("EY"),
    S("Ernst"), S("&"), S("Young"), S("Cooley"), S("LLP") }

FirmNameInputs == UNION {WordStrings(FirmWords, n) : n \in 1..MaxFirmWords}

VlFirmInit ==
  vl \in {[pc |-> "call", name |-> n, company_name |-> c, verdict |-> FALSE] :
            n \in FirmNameInputs, c \in CompanyArguments}

validate_firm ==
  /\ vl.pc = "call"
  /\ vl' = [vl EXCEPT !.pc = "returned",
                      !.verdict = is_not_law_firm(vl.name, vl.company_name)]
  /\ UNCHANGED <<nf, rr, pg, dd, sc, tk, lf>>

NextFirm == validate_firm

InitFirm ==
  /\ VlFirmInit
  /\ nf = Idle /\ rr = Idle /\ pg = Idle /\ dd = Idle /\ sc = Idle /\ tk = Idle /\ lf = Idle

SpecFirm == InitFirm /\ [][NextFirm]_vars

\* ------------------------------------------------------------------------
\* One filing task, step by step (company_search.py, process_single_filing
\* with extract_counsel_sections and parse_with_openai), and the handling of
\* its future by search_company_for_lawyers
\*
\* gets, regex_runs and posts record the requests.get calls (by URL), the
\* calls of extract_lawyers_by_regex and the requests.post calls made.
\* ------------------------------------------------------------------------

retries == 2

\* what one requests.post to the LLM yields: it raises (timeout, connection),
\* a status other than 200, a 200 body without choices, content that
\* json.loads or the filtering loop rejects, or a JSON object of firms
LlmReplies == {"exception", "not_200", "no_choices", "bad_json", "json"}

TkInit ==
  tk \in {[pc |-> "start", text |-> d, primary_doc |-> p, doc_url |-> "",
           gets |-> <<>>, fetch |-> "", regex_runs |-> 0, attempt |-> 0, posts |-> 0,
           answered |-> FALSE, regex_results |-> dict_empty,
           firm_lawyers_dict |-> dict_empty, outcome |-> no_outcome] :
            d \in 1..Len(FilingTexts), p \in BOOLEAN}

\* doc_url: the primary document when the filing names one, else the
\* accession-number document
build_doc_url ==
  /\ tk.pc = "start"
  /\ tk' = [tk EXCEPT !.pc = "fetch",
                      !.doc_url = IF tk.primary_doc THEN "primary_doc" ELSE "accession"]
  /\ UNCHANGED <<nf, rr, pg, dd, sc, vl, lf>>

\* extracted_text = extract_counsel_sections(doc_url); raise when it is None
fetch_document ==
  /\ tk.pc = "fetch"
  /\ \E fetch \in FetchResults :
       tk' = [tk EXCEPT
                !.gets = Append(@, tk.doc_url),
                !.fetch = fetch,
                !.pc = IF extract_counsel_sections(fetch) THEN "regex" ELSE "raised",
                !.outcome = IF extract_counsel_sections(fetch) THEN @
                            ELSE [no_outcome EXCEPT !.raised = "No text extracted"]]
  /\ UNCHANGED <<nf, rr, pg, dd, sc, vl, lf>>

\* regex_results = extract_lawyers_by_regex(extracted_text, company_name)
run_regex ==
  /\ tk.pc = "regex"
  /\ tk' = [tk EXCEPT
              !.pc = "llm",
              !.regex_runs = @ + 1,
              !.regex_results = extract_lawyers_by_regex(FilingTexts[tk.text],
                                                         company_name_of_search)]
  /\ UNCHANGED <<nf, rr, pg, dd, sc, vl, lf>>

\* one more iteration than range(retries + 1) allows
llm_attempt_step_extra_retry(st, reply) ==
  LET posted == [st EXCEPT !.posts = @ + 1]
  IN IF reply = "json"
     THEN [posted EXCEPT
             !.pc = "merge",
             !.answered = TRUE,
             !.firm_lawyers_dict =
                parse_with_openai(FilingTexts[st.text], company_name_of_search, TRUE)]
     ELSE IF st.attempt < retries + 1
     THEN [posted EXCEPT !.attempt = @ + 1]
     ELSE [posted EXCEPT !.pc = "merge", !.firm_lawyers_dict = dict_empty]

\* the body of `for attempt in range(retries + 1)` with the reply of its
\* request, and the `return {}` after the last iteration
llm_attempt_step(st, reply) ==
  LET posted == [st EXCEPT !.posts = @ + 1]
  IN IF reply = "json"
     THEN [posted EXCEPT
             !.pc = "merge",
             !.answered = TRUE,
             !.firm_lawyers_dict =
                parse_with_openai(FilingTexts[st.text], company_name_of_search, TRUE)]
     ELSE IF st.attempt < retries
     THEN [posted EXCEPT !.attempt = @ + 1]
     ELSE [posted EXCEPT !.pc = "merge", !.firm_lawyers_dict = dict_empty]

llm_attempt ==
  /\ tk.pc = "llm"
  /\ \E reply \in LlmReplies : tk' = llm_attempt_step(tk, reply)
  /\ UNCHANGED <<nf, rr, pg, dd, sc, vl, lf>>

\* the two updates of firm_to_lawyers, the firm-only fallback, raise or return
finish_filing ==
  /\ tk.pc = "merge"
  /\ LET outcome == process_extracted(tk.regex_results, tk.firm_lawyers_dict,
                                      FilingTexts[tk.text], company_name_of_search)
     IN tk' = [tk EXCEPT !.pc = IF outcome.raised = "" THEN "returned" ELSE "raised",
                         !.outcome = outcome]
  /\ UNCHANGED <<nf, rr, pg, dd, sc, vl, lf>>

\* the worker sets the result or the exception of the future
task_done ==
  /\ tk.pc \in {"returned", "raised"}
  /\ sc.futures[1].state = "running"
  /\ sc' = [sc EXCEPT !.futures[1] = [state |-> "finished", outcome |-> tk.outcome]]
  /\ UNCHANGED <<nf, rr, pg, dd, tk, vl, lf>>

\* search_company_for_lawyers with one filing submitted and its task started
ScOneTask ==
  sc \in {[pc |-> "pool", filings |-> <<tk.text>>,
           futures |-> <<[state |-> "running", outcome |-> no_outcome]>>, handled |-> {},
           completed |-> 0, success_count |-> 0, failed_count |-> 0,
           no_text_count |-> 0, no_lawyers_count |-> 0,
           firm_to_lawyers |-> dict_empty, df |-> <<>>, error |-> ""]}

NextTask ==
  \/ build_doc_url
  \/ fetch_document
  \/ run_regex
  \/ llm_attempt
  \/ finish_filing
  \/ task_done
  \/ collect

InitTask ==
  /\ TkInit
  /\ ScOneTask
  /\ nf = Idle /\ rr = Idle /\ pg = Idle /\ dd = Idle /\ vl = Idle /\ lf = Idle

SpecTask == InitTask /\ [][NextTask]_vars

\* ------------------------------------------------------------------------
\* search_law_firm_for_companies: the per-company pool and its workers

debug_limit == 3

lf_max_workers == 15

MaxRows == 4

\* the two URL formats of get_most_recent_lawyer_from_filing, in list order
doc_urls == <<"accession_htm", "accession_index_htm">>

\* what one pass of the URL loop can see: requests.get raises; the status is
\* not 200 or the page has under 5000 characters; the page is usable and
\* extract_counsel_sections(doc_url) then returns None, or returns the text
UrlReplies == {"exception", "unusable", "usable_then_none", "usable_then_text"}

RECURSIVE first_usable_url(_, _)
first_usable_url(replies, i) ==
  IF i > Len(doc_urls) THEN 0
  ELSE IF replies[i] = "usable_then_text" THEN i
  ELSE first_usable_url(replies, i + 1)

\* extract_lawyers_by_regex(text, company_name) for each filing text
regex_of_filing ==
  [d \in 1..Len(FilingTexts) |->
     extract_lawyers_by_regex(FilingTexts[d], company_name_of_search)]

\* `for firm, lawyers in firm_to_lawyers.items()`: the first firm that matches
\* firm_name and has lawyers gives sorted(lawyers)[0]; `matched` is the set of
\* firms the fuzzy comparison accepts (it is built on clean_firm_name, which
\* company_search.py does not define, so the set is an input)
RECURSIVE first_matched_lawyer(_, _, _)
first_matched_lawyer(firm_to_lawyers, matched, i) ==
  IF i > Len(firm_to_lawyers.keys) THEN <<>>
  ELSE LET firm == firm_to_lawyers.keys[i]
       IN IF firm \in matched /\ firm_to_lawyers.val[firm] # {}
          THEN sorted(firm_to_lawyers.val[firm])[1]
          ELSE first_matched_lawyer(firm_to_lawyers, matched, i + 1)

\* get_most_recent_lawyer_from_filing up to its return or to the point where
\* it is about to record a diagnostic: the kind of outcome and the lawyer
get_most_recent_lawyer_from_filing(replies, firm_to_lawyers, matched) ==
  IF first_usable_url(replies, 1) = 0
  THEN [kind |-> "no_text", lawyer |-> <<>>]
  ELSE IF Len(firm_to_lawyers.keys) = 0
  THEN [kind |-> "no_lawyers", lawyer |-> <<>>]
  ELSE IF first_matched_lawyer(firm_to_lawyers, matched, 1) # <<>>
  THEN [kind |-> "lawyer", lawyer |-> first_matched_lawyer(firm_to_lawyers, matched, 1)]
  ELSE [kind |-> "not_matched", lawyer |-> <<>>]

\* extract_lawyer_for_row: a row without cik or adsh returns (company, None)
\* without looking at a filing
extract_lawyer_for_row(has_ids, replies, firm_to_lawyers, matched) ==
  IF ~has_ids THEN [kind |-> "no_filing_data", lawyer |-> <<>>]
  ELSE get_most_recent_lawyer_from_filing(replies, firm_to_lawyers, matched)

\* the module as loaded: _debug_failures holds what an earlier search left.
\* An entry of the list is recorded as the row of the company its message
\* starts with (0: a company of an earlier search).
LfInit ==
  lf \in {[pc |-> "start", futures |-> <<>>, handled |-> {}, completed |-> 0,
           company_to_lawyer |-> [c \in {} |-> <<>>], failed_extractions |-> 0,
           error_samples |-> <<>>, debug_failures |-> left] :
            left \in {<<>>, <<0>>}}

\* `_debug_failures = []`, then executor.submit(extract_lawyer_for_row, row)
\* for every row of result_df
submit_rows ==
  /\ lf.pc = "start"
  /\ \E n \in 1..MaxRows :
       lf' = [lf EXCEPT !.pc = "pool", !.debug_failures = <<>>,
                        !.futures = [t \in 1..n |->
                                       [state |-> "queued", lawyer |-> <<>>,
                                        raised |-> FALSE]]]
  /\ UNCHANGED <<nf, rr, pg, dd, sc, vl, tk>>

Rows == 1..Len(lf.futures)

\* a free worker of the pool takes the oldest queued row
start_row ==
  /\ lf.pc = "pool"
  /\ Cardinality({t \in Rows : lf.futures[t].state \notin {"queued", "finished"}})
       < lf_max_workers
  /\ \E t \in Rows :
       /\ lf.futures[t].state = "queued"
       /\ \A u \in 1..(t - 1) : lf.futures[u].state # "queued"
       /\ lf' = [lf EXCEPT !.futures[t].state = "running"]
  /\ UNCHANGED <<nf, rr, pg, dd, sc, vl, tk>>

\* the filings the search found for the companies: one naming attorneys of a
\* firm, one with a bare firm mention, one without any captured firm, and
\* one whose firm has both an attorney and the firm-only marker
RowFilings == {1, 3, 5, 7}

\* every outcome extract_lawyer_for_row can have: over the row having cik and
\* adsh or not, the replies to the two URLs, the filing text, and the firms
\* of the text that match firm_name
RowOutcomes ==
  UNION {{extract_lawyer_for_row(has_ids, replies, regex_of_filing[d], matched) :
            has_ids \in BOOLEAN, replies \in [1..Len(doc_urls) -> UrlReplies],
            matched \in SUBSET SeqRange(regex_of_filing[d].keys)} :
         d \in RowFilings}

\* the worker runs extract_lawyer_for_row up to its return or up to the
\* `if debug and len(_debug_failures) < _debug_limit` of a failure path
run_row ==
  /\ lf.pc = "pool"
  /\ \E t \in Rows, r \in RowOutcomes :
       /\ lf.futures[t].state = "running"
       /\ lf' = [lf EXCEPT !.futures[t] =
                   [state |-> IF r.kind \in {"lawyer", "no_filing_data"}
                              THEN "finished" ELSE "check",
                    lawyer |-> r.lawyer, raised |-> FALSE]]
  /\ UNCHANGED <<nf, rr, pg, dd, sc, vl, tk>>

\* an exception leaves extract_lawyer_for_row (outside the try block of
\* get_most_recent_lawyer_from_filing): the future holds the exception
row_raises ==
  /\ lf.pc = "pool"
  /\ \E t \in Rows :
       /\ lf.futures[t].state = "running"
       /\ lf' = [lf EXCEPT !.futures[t] =
                   [state |-> "finished", lawyer |-> <<>>, raised |-> TRUE]]
  /\ UNCHANGED <<nf, rr, pg, dd, sc, vl, tk>>

\* the worker evaluates len(_debug_failures) < _debug_limit (debug=True)
check_debug_limit ==
  /\ lf.pc = "pool"
  /\ \E t \in Rows :
       /\ lf.futures[t].state = "check"
       /\ lf' = [lf EXCEPT !.futures[t].state =
                   IF Len(lf.debug_failures) < debug_limit THEN "append" ELSE "finished"]
  /\ UNCHANGED <<nf, rr, pg, dd, sc, vl, tk>>

\* the worker formats its message and calls _debug_failures.append, then
\* returns None
append_debug_failure ==
  /\ lf.pc = "pool"
  /\ \E t \in Rows :
       /\ lf.futures[t].state = "append"
       /\ lf' = [lf EXCEPT !.debug_failures = Append(@, t),
                           !.futures[t].state = "finished"]
  /\ UNCHANGED <<nf, rr, pg, dd, sc, vl, tk>>

\* collect_row whose except clause does not count the failed extraction
collect_row_uncounted_exception(st, t) ==
  LET counted == [st EXCEPT !.handled = @ \cup {t}, !.completed = @ + 1]
  IN IF st.futures[t].raised
     THEN [counted EXCEPT !.error_samples = IF Len(@) < 3 THEN Append(@, t) ELSE @]
     ELSE IF st.futures[t].lawyer # <<>>
     THEN [counted EXCEPT !.company_to_lawyer =
                            [c \in DOMAIN @ \cup {t} |->
                               IF c = t THEN st.futures[t].lawyer ELSE @[c]]]
     ELSE [counted EXCEPT !.failed_extractions = @ + 1]

\* the body of `for future in as_completed(futures)` for the future of row t
collect_row(st, t) ==
  LET counted == [st EXCEPT !.handled = @ \cup {t}, !.completed = @ + 1]
  IN IF st.futures[t].raised
     THEN [counted EXCEPT !.failed_extractions = @ + 1,
                          !.error_samples = IF Len(@) < 3 THEN Append(@, t) ELSE @]
     ELSE IF st.futures[t].lawyer # <<>>
     THEN [counted EXCEPT !.company_to_lawyer =
                            [c \in DOMAIN @ \cup {t} |->
                               IF c = t THEN st.futures[t].lawyer ELSE @[c]]]
     ELSE [counted EXCEPT !.failed_extractions = @ + 1]

\* as_completed yields a finished future
collect_rows ==
  /\ lf.pc = "pool"
  /\ \E t \in Rows \ lf.handled :
       /\ lf.futures[t].state = "finished"
       /\ lf' = collect_row(lf, t)
  /\ UNCHANGED <<nf, rr, pg, dd, sc, vl, tk>>

\* every future was yielded: the pool is left and the totals are reported
pool_done ==
  /\ lf.pc = "pool"
  /\ lf.handled = Rows
  /\ lf' = [lf EXCEPT !.pc = "extracted"]
  /\ UNCHANGED <<nf, rr, pg, dd, sc, vl, tk>>

NextLawFirm ==
  \/ submit_rows
  \/ start_row
  \/ run_row
  \/ row_raises
  \/ check_debug_limit
  \/ append_debug_failure
  \/ collect_rows
  \/ pool_done

InitLawFirm ==
  /\ LfInit
  /\ nf = Idle /\ rr = Idle /\ pg = Idle /\ dd = Idle /\ sc = Idle /\ vl = Idle /\ tk = Idle

SpecLawFirm == InitLawFirm /\ [][NextLawFirm]_vars

\* ------------------------------------------------------------------------
\* get_most_recent_lawyer_from_filing on its own: one call per filing text,
\* set of matching firms and pair of URL replies

MrInit ==
  lf \in UNION {{[pc |-> "call", filing |-> d, matched |-> matched, replies |-> replies,
                  kind |-> "", returned |-> <<>>] :
                   matched \in SUBSET SeqRange(regex_of_filing[d].keys),
                   replies \in [1..Len(doc_urls) -> UrlReplies]} :
                d \in 1..Len(FilingTexts)}

\* the call returns the lawyer, or None
most_recent_returns ==
  /\ lf.pc = "call"
  /\ LET r == get_most_recent_lawyer_from_filing(lf.replies, regex_of_filing[lf.filing],
                                                  lf.matched)
     IN lf' = [lf EXCEPT !.pc = "returned", !.kind = r.kind, !.returned = r.lawyer]
  /\ UNCHANGED <<nf, rr, pg, dd, sc, vl, tk>>

NextMostRecent == most_recent_returns

InitMostRecent ==
  /\ MrInit
  /\ nf = Idle /\ rr = Idle /\ pg = Idle /\ dd = Idle /\ sc = Idle /\ vl = Idle /\ tk = Idle

SpecMostRecent == InitMostRecent /\ [][NextMostRecent]_vars

\* ------------------------------------------------------------------------
\* search_law_firm_for_companies from its search to the selection of the
\* columns the per-company pool reads

MaxHits == 2

\* the keys of the filing_info record search_edgar builds for a hit
search_edgar_fields == {"search_term", "company_name", "filing_type", "filing_date"}

\* the columns selected into result_df
result_columns == {"clean_company_name", "ticker", "filing_date", "cik", "adsh"}

\* A hit, by what the search reads of it: the clean company name and whether
\* a ticker follows it in company_name, whether filing_type is one of
\* RELEVANT_FILINGS, and the filing date.
Hits ==
  [clean_company_name : 1..2, ticker : BOOLEAN, relevant : BOOLEAN, filing_date : 1..2]

RECURSIVE HitListsOf(_)
HitListsOf(n) ==
  IF n = 0 THEN {<<>>}
  ELSE UNION {{Append(l, h) : h \in Hits} : l \in HitListsOf(n - 1)}

HitLists == UNION {HitListsOf(n) : n \in 0..MaxHits}

\* df[df["filing_type"].isin(RELEVANT_FILINGS)]
filter_important_filings(df) == SelectSeq(df, LAMBDA h : h.relevant)

\* df.sort_values('filing_date', ascending=False)
sort_by_date_descending(df) ==
  SelectSeq(df, LAMBDA h : h.filing_date = 2) \o SelectSeq(df, LAMBDA h : h.filing_date = 1)

\* df.drop_duplicates(subset=['clean_company_name'], keep='first')
RECURSIVE first_per_company(_, _)
first_per_company(df, i) ==
  IF i > Len(df) THEN <<>>
  ELSE (IF \E j \in 1..(i - 1) : df[j].clean_company_name = df[i].clean_company_name
        THEN <<>> ELSE <<df[i]>>)
       \o first_per_company(df, i + 1)

RsInit ==
  lf = [pc |-> "search", results |-> <<>>, columns |-> {}, df_unique |-> <<>>,
        error |-> ""]

\* results, total = search_paginated(...); raise ValueError when there is none
search_returns ==
  /\ lf.pc = "search"
  /\ \E results \in HitLists :
       lf' = IF results = <<>>
             THEN [lf EXCEPT !.pc = "raised", !.error = "ValueError: No results found"]
             ELSE [lf EXCEPT !.pc = "found", !.results = results,
                             !.columns = search_edgar_fields]
  /\ UNCHANGED <<nf, rr, pg, dd, sc, vl, tk>>

\* filter_important_filings, ValueError when nothing is left; then the clean
\* name and ticker columns, the sort and the most recent filing per company
unique_companies ==
  /\ lf.pc = "found"
  /\ lf' = IF filter_important_filings(lf.results) = <<>>
           THEN [lf EXCEPT !.pc = "raised",
                           !.error = "ValueError: No relevant filings found"]
           ELSE [lf EXCEPT
                   !.pc = "unique",
                   !.columns = @ \cup {"clean_company_name", "ticker"},
                   !.df_unique = first_per_company(
                      sort_by_date_descending(filter_important_filings(lf.results)), 1)]
  /\ UNCHANGED <<nf, rr, pg, dd, sc, vl, tk>>

\* result_df = df_unique[[...]].copy(): a column that df_unique lacks raises
\* KeyError; otherwise the rows with a ticker go on to the enrichment and
\* the per-company pool
select_result_columns ==
  /\ lf.pc = "unique"
  /\ lf' = IF result_columns \subseteq lf.columns
           THEN [lf EXCEPT !.pc = "rows",
                           !.df_unique = SelectSeq(@, LAMBDA h : h.ticker)]
           ELSE [lf EXCEPT !.pc = "raised", !.error = "KeyError"]
  /\ UNCHANGED <<nf, rr, pg, dd, sc, vl, tk>>

NextReverseSearch == search_returns \/ unique_companies \/ select_result_columns

InitReverseSearch ==
  /\ RsInit
  /\ nf = Idle /\ rr = Idle /\ pg = Idle /\ dd = Idle /\ sc = Idle /\ vl = Idle /\ tk = Idle

SpecReverseSearch == InitReverseSearch /\ [][NextReverseSearch]_vars

\* ------------------------------------------------------------------------
\* Properties
\* ------------------------------------------------------------------------

\* C5: the years selected for the probe counts, as the policy states them
PolicyYears(count_2yr, count_4yr) ==
  IF count_2yr >= 100 \/ count_2yr >= 40 THEN 2
  ELSE IF count_4yr >= 100 THEN 3
  ELSE IF count_4yr >= 30 THEN 4
  ELSE IF count_4yr >= 15 THEN 5
  ELSE 7

YearsText(years) ==
  IF years = 2 THEN "2 years"
  ELSE IF years = 3 THEN "3 years"
  ELSE IF years = 4 THEN "4 years"
  ELSE IF years = 5 THEN "5 years"
  ELSE "7 years"

\* C5: determine_optimal_date_range selects 2 years when count_2yr >= 100 or
\* count_2yr >= 40, else 3 years when count_4yr >= 100, else 4 years when
\* count_4yr >= 30, else 5 years when count_4yr >= 15, else 7 years; and the
\* window never gets narrower when either count decreases.
C5_RangePolicy ==
  /\ [](rr.pc = "decided" =>
          /\ rr.days = 365 * PolicyYears(rr.count_2yr, rr.count_4yr)
          /\ rr.final_range = YearsText(PolicyYears(rr.count_2yr, rr.count_4yr)))
  /\ [][(/\ rr.pc = "decided"
         /\ rr'.pc = "decided"
         /\ rr'.count_2yr <= rr.count_2yr
         /\ rr'.count_4yr <= rr.count_4yr) => rr'.days >= rr.days]_vars

\* C5 witness: the resolver escalated to the 5-year window on the 4-year floor of 15
C5_Witness ==
  /\ rr.pc = "decided"
  /\ rr.count_2yr = 39
  /\ rr.count_4yr = 15
  /\ rr.days = 1825

\* C8: normalize_firm_name(normalize_firm_name(x)) = normalize_firm_name(x)
C8_NormalizeIdempotent ==
  nf.pc = "twice" => nf.twice = nf.once

\* C4: search_paginated issues no further page request once 3 consecutive
\* pages have each contributed no newly-seen company name, whatever the
\* reported total and the cap; and a page that contributes a new name leaves
\* the stale-page counter at 0.
C4_StaleCutoff ==
  pg.pc = "loop" =>
    /\ pg.stale_run < 3
    /\ pg.new_last_page > 0 => pg.pages_without_new_companies = 0

\* C4 witness: the collector returned on the third consecutive stale page with
\* the reported total far above what it collected and the cap not reached
C4_Witness ==
  /\ pg.pc = "returned"
  /\ pg.stale_run = 3
  /\ pg.requests >= 4
  /\ pg.total = 1000000
  /\ pg.all_results < pg.max_total

\* the collection loop of search_company_for_lawyers has ended
batch_collected ==
  \/ sc.pc \in {"dedup", "done"}
  \/ sc.pc = "raised" /\ Len(sc.filings) > 0

\* the tasks whose process_single_filing raised
failed_tasks == {t \in Tasks : sc.futures[t].outcome.raised # ""}

\* C1: for N dispatched filing tasks of which K raise, once every future has
\* completed success_count + failed_count = N, failed_count = K and
\* success_count = N - K, in every order of completion.
C1_CountsAddUp ==
  batch_collected =>
    /\ \A t \in Tasks : sc.futures[t].state = "finished"
    /\ sc.success_count + sc.failed_count = Len(sc.filings)
    /\ sc.failed_count = Cardinality(failed_tasks)
    /\ sc.success_count = Len(sc.filings) - Cardinality(failed_tasks)

\* C1 witness: two tasks were dispatched, one raised, and the table was built
C1_Witness ==
  /\ sc.pc = "done"
  /\ Len(sc.filings) = 2
  /\ Cardinality(failed_tasks) = 1
  /\ sc.failed_count = 1
  /\ sc.success_count = 1

\* C3: a filing task that raises never aborts its siblings or the batch:
\* when the collection loop has ended every dispatched task has run to
\* completion, the call has not failed with a task's exception, and the result
\* of every successful task is in the merged map.
C3_FailureIsolated ==
  /\ sc.pc = "raised" /\ Len(sc.filings) > 0 => sc.error = "No lawyers found for company"
  /\ batch_collected => \A t \in Tasks : sc.futures[t].state = "finished"
  /\ sc.pc = "dedup" =>
       \A t \in Tasks \ failed_tasks :
         \A firm \in SeqRange(sc.futures[t].outcome.result.keys) :
           /\ has_key(sc.firm_to_lawyers, firm)
           /\ sc.futures[t].outcome.result.val[firm] \subseteq sc.firm_to_lawyers.val[firm]

\* C3 witness: one task raised, its sibling's result was merged afterwards
C3_Witness ==
  /\ sc.pc = "dedup"
  /\ sc.failed_count = 1
  /\ sc.success_count = 1
  /\ \E t \in Tasks \ failed_tasks :
       S("Cooley LLP") \in SeqRange(sc.futures[t].outcome.result.keys)
  /\ has_key(sc.firm_to_lawyers, S("Cooley LLP"))

\* the lawyer strings of a firm in the argument of the call, each with its key
keyed_input(firm) ==
  {<<l, normalize_lawyer_name_for_matching(l)>> : l \in dd.firm_to_lawyers.val[firm]}

\* for one firm: every key has exactly one survivor, a longest string of the key
one_longest_per_key(keyed, survivors) ==
  \A p \in keyed :
    LET same_key == {q[1] : q \in {r \in keyed : r[2] = p[2]}}
        kept == same_key \cap survivors
    IN /\ Cardinality(kept) = 1
       /\ \A k \in kept : \A l \in same_key : Len(k) >= Len(l)

\* C6: after deduplicate_firm_lawyers, for every firm and every normalization
\* key exactly one lawyer string with that key survives, and it is a longest
\* of the firm's input strings with that key, in every order of visiting.
C6_OneLongestPerKey ==
  dd.pc = "done" =>
    \A firm \in SeqRange(dd.firm_to_lawyers.keys) :
      dd.firm_to_lawyers.val[firm] # {} =>
        /\ has_key(dd.deduplicated, firm)
        /\ one_longest_per_key(keyed_input(firm), dd.deduplicated.val[firm])

\* C6 witness: "Michelle A. Wong" survived over "Michelle Wong"
C6_Witness ==
  /\ dd.pc = "done"
  /\ dd.firm_to_lawyers.val[S("Latham & Watkins LLP")] =
       {S("Michelle A. Wong"), S("Michelle Wong")}
  /\ dd.deduplicated.val[S("Latham & Watkins LLP")] = {S("Michelle A. Wong")}

\* the endings the claim lists
claimed_firm_endings == {S("LLP"), S("LLC"), S("PLLC"), S("P.C."), S("P.A.")}

\* the maps a finished task produced
task_maps(t) ==
  <<sc.futures[t].outcome.result, sc.futures[t].outcome.regex_results,
    sc.futures[t].outcome.llm_results>>

\* C9: every firm key of every map produced by extract_lawyers_by_regex,
\* parse_with_openai or process_single_filing ends in one of LLP, LLC, PLLC,
\* P.C., P.A.
C9_FirmKeySuffix ==
  sc.pc = "pool" =>
    \A t \in Tasks : \A m \in 1..3 : \A firm \in SeqRange(task_maps(t)[m].keys) :
      \E ending \in claimed_firm_endings : endswith(firm, ending)

\* C9 witness: the LLM pass returned "Latham and Watkins" and the map holds
\* the normalized key
C9_Witness ==
  /\ sc.pc = "pool"
  /\ \E t \in Tasks :
       /\ sc.filings[t] = 2
       /\ sc.futures[t].state = "finished"
       /\ sc.futures[t].outcome.llm_results.keys = <<S("Latham & Watkins LLP")>>

\* a person name of 2 to 4 capitalized tokens containing no digit
claimed_person_name(lawyer) ==
  LET words == split(lawyer)
  IN /\ Len(words) >= 2
     /\ Len(words) <= 4
     /\ \A w \in 1..Len(words) : isupper(words[w][1])
     /\ \A i \in 1..Len(lawyer) : ~isdigit(lawyer[i])

\* C10: every lawyer entry of every firm in a map returned by
\* process_single_filing is a person name of 2 to 4 capitalized tokens
\* containing no digits.
C10_LawyerEntriesArePersonNames ==
  sc.pc = "pool" =>
    \A t \in Tasks \ failed_tasks :
      \A firm \in SeqRange(sc.futures[t].outcome.result.keys) :
        \A lawyer \in sc.futures[t].outcome.result.val[firm] :
          claimed_person_name(lawyer)

\* the maps the successful tasks returned
successful_results == {sc.futures[t].outcome.result : t \in Tasks \ failed_tasks}

\* the firms of the batch for which no task extracted a lawyer name
firm_only_firms ==
  {firm \in UNION {SeqRange(r.keys) : r \in successful_results} :
     \A r \in successful_results :
       has_key(r, firm) => r.val[firm] \subseteq {firm_only_marker}}

\* C7: in the final table a firm for which no lawyer name was extracted
\* appears as exactly one row, whose Lawyer field is empty, and no
\* (firm, lawyer) row appears twice.
C7_FirmOnlyRow ==
  sc.pc = "done" =>
    /\ \A firm \in firm_only_firms :
         /\ Cardinality({i \in 1..Len(sc.df) : sc.df[i].firm = firm}) = 1
         /\ \A i \in 1..Len(sc.df) : sc.df[i].firm = firm => sc.df[i].lawyer = <<>>
    /\ \A i, j \in 1..Len(sc.df) : i # j => sc.df[i] # sc.df[j]

\* the successful results merged in some order
RECURSIVE merge_all(_)
merge_all(results) ==
  IF results = {} THEN dict_empty
  ELSE LET r == CHOOSE r \in results : TRUE
       IN merge(merge_all(results \ {r}), r)

RECURSIVE visit_in_order(_, _, _)
visit_in_order(st, names, i) ==
  IF i > Len(names) THEN st
  ELSE visit_in_order(dedup_visit(st, names[i]), names, i + 1)

\* deduplicate_firm_lawyers when every set is visited in sorted order
RECURSIVE dedup_sorted(_)
dedup_sorted(st) ==
  IF st.i = Len(st.firm_to_lawyers.keys) THEN st.deduplicated
  ELSE LET firm == st.firm_to_lawyers.keys[st.i + 1]
           next_firm == [st EXCEPT !.i = @ + 1, !.seen_normalized = no_seen]
       IN dedup_sorted(visit_in_order(next_firm, sorted(st.firm_to_lawyers.val[firm]), 1))

\* the rows of the run that collects the distinct successful results once
\* each and visits every set in sorted order
reference_rows ==
  SeqRange(relationship_table(dedup_sorted(dedup_call(merge_all(successful_results)))))

\* C2: the set of (firm, lawyer) rows of the final table is the same for every
\* completion order of the tasks, and merging the same per-filing result
\* twice changes nothing: it is the set of rows of the one run above.
C2_OrderIndependentOutput ==
  sc.pc = "done" => SeqRange(sc.df) = reference_rows

\* the names the claim lists as accepted, and as rejected
claimed_person_examples == {S("John Smith"), S("Jane K. Doe")}

claimed_non_person_examples ==
  {S("Chief Legal Officer"), S("The Registrant"), S("Goldman Sachs")}

\* C11: is_valid_person_name accepts "John Smith" and "Jane K. Doe" and
\* rejects "Chief Legal Officer", "The Registrant" and "Goldman Sachs".
C11_PersonExamples ==
  vl.pc = "returned" =>
    /\ vl.name \in claimed_person_examples => vl.verdict
    /\ vl.name \in claimed_non_person_examples => ~vl.verdict

\* the one-word Big-4 tokens the claim lists
claimed_accounting_tokens ==
  {S("deloitte"), S("pwc"), S("pricewaterhousecoopers"), S("kpmg"), S("ey")}

\* the name has one of the listed tokens among its words
has_accounting_token(name) ==
  LET words == split(lower(name))
  IN \E w \in 1..Len(words) :
       \/ words[w] \in claimed_accounting_tokens
       \/ /\ w + 2 <= Len(words)
          /\ words[w] = S("ernst")
          /\ words[w + 1] = S("&")
          /\ words[w + 2] = S("young")

\* C12: is_not_law_firm reports every name that contains a Big-4
\* accounting-firm token as not a law firm, also when the name carries a valid
\* law-firm suffix.
C12_AccountingExcluded ==
  vl.pc = "returned" /\ has_accounting_token(vl.name) => vl.verdict

\* C12 witness: "Deloitte LLP" was reported as not a law firm
C12_Witness ==
  /\ vl.pc = "returned"
  /\ vl.name = S("Deloitte LLP")
  /\ has_accounting_token(vl.name)
  /\ vl.verdict

\* the stepwise task ends as process_single_filing computes it
TaskRefinesProcessSingleFiling ==
  tk.pc \in {"returned", "raised"} =>
    tk.outcome = process_single_filing(FilingTexts[tk.text], tk.fetch, tk.answered,
                                       company_name_of_search)

\* C13: parse_with_openai issues at most 3 requests per call (one attempt and
\* up to 2 retries after a failure); when every attempt fails it returns an
\* empty map; it never raises to its caller: a step of it stays in the call
\* or returns.
C13_BoundedLlmRetries ==
  /\ [](tk.posts <= 3)
  /\ [](tk.pc = "merge" /\ ~tk.answered =>
          tk.posts = 3 /\ tk.firm_lawyers_dict = dict_empty)
  /\ [][tk.pc = "llm" => tk'.pc \in {"llm", "merge"}]_vars

\* C13 witness: three requests failed and the call returned the empty map
C13_Witness ==
  /\ tk.pc = "merge"
  /\ ~tk.answered
  /\ tk.posts = 3
  /\ tk.attempt = 2
  /\ Len(tk.regex_results.keys) > 0
  /\ tk.firm_lawyers_dict = dict_empty

\* C14: the LLM pass only adds to the pattern-rule result: in the map
\* process_single_filing returns, every firm of extract_lawyers_by_regex is
\* present with a superset of the lawyers the pattern rules gave it.
C14_LlmOnlyAdds ==
  tk.pc = "returned" =>
    \A firm \in SeqRange(tk.regex_results.keys) :
      /\ has_key(tk.outcome.result, firm)
      /\ tk.regex_results.val[firm] \subseteq tk.outcome.result.val[firm]

\* C14 witness: the LLM pass answered for a firm the pattern rules had found
\* and named a lawyer they had not
C14_Witness ==
  /\ tk.pc = "returned"
  /\ tk.answered
  /\ has_key(tk.regex_results, S("Latham & Watkins LLP"))
  /\ has_key(tk.firm_lawyers_dict, S("Latham & Watkins LLP"))
  /\ S("Michelle Wong") \in tk.regex_results.val[S("Latham & Watkins LLP")]
  /\ S("Michelle Wong") \notin SeqRange(tk.firm_lawyers_dict.val[S("Latham & Watkins LLP")])
  /\ S("John Smith3") \in tk.outcome.result.val[S("Latham & Watkins LLP")]


\* the whole-batch failures search_company_for_lawyers raises as ValueError
whole_batch_failures ==
  {"Company not found", "No relevant filings found", "No lawyers found for company"}

\* C15: search_company_for_lawyers ends in exactly one of two ways: it returns
\* a relationship table with at least one row, or it raises a whole-batch
\* ValueError (lookup failure or empty result set); the errors of the tasks
\* are reduced to counters and never end the call
C15_TableOrWholeBatchFailure ==
  /\ sc.pc = "done" => Len(sc.df) >= 1
  /\ sc.pc = "raised" => sc.error \in whole_batch_failures
  /\ sc.pc \in {"pool", "dedup", "done"} =>
       sc.failed_count = Cardinality(failed_tasks \cap sc.handled)


\* C16: every failed filing task is classified into exactly one of
\* EmptyOrShortDocument (no_text_count), NoEntitiesFound (no_lawyers_count),
\* TransportError or other, and a failed download (network error or timeout)
\* is counted as a transport error, not as an empty or short document
C16_TransportErrorDistinct ==
  sc.handled = {1} /\ tk.outcome.raised # "" =>
    /\ sc.failed_count = 1
    /\ sc.no_text_count + sc.no_lawyers_count <= 1
    /\ tk.fetch = "exception" => sc.no_text_count = 0


\* the structures of the per-company pool that every task can reach
lf_shared(st) ==
  <<st.company_to_lawyer, st.completed, st.failed_extractions, st.error_samples,
    st.debug_failures>>

\* C17: worker tasks never mutate shared state: the results map, the progress
\* and failure counters and the failure diagnostics change only in a step of
\* the orchestrator (its reset before the pool, or its handling of a completed
\* future), never in a step of a worker task
C17_OnlyOrchestratorWrites ==
  [][lf_shared(lf)' # lf_shared(lf) => lf.pc = "start" \/ lf'.handled # lf.handled]_vars


\* C18: a transport failure of the filing document fetch is retried: the task
\* reports the failure only after a bounded number of attempts (2 to 3) at
\* the document
C18_FetchRetried ==
  tk.pc = "raised" /\ tk.fetch = "exception" => Len(tk.gets) \in 2..3


\* C19: when the fetch of a filing's primary-document URL yields no usable
\* text, the accession-number URL is tried next, before the filing is
\* reported as having no text
C19_AccessionFallback ==
  tk.pc = "raised" /\ tk.outcome.raised = "No text extracted" /\ tk.primary_doc =>
    tk.gets = <<"primary_doc", "accession">>


\* C20: for a filing whose text is absent (the fetch raised, the status was
\* not 200, or the stripped text has under 5,000 characters)
\* process_single_filing ends with the failure "No text extracted" without
\* running the pattern extractor and without any LLM request, the document
\* is fetched once only, and the batch goes on: the orchestrator counts the
\* task as failed and raises nothing
C20_AbsentTextEndsTask ==
  tk.fetch \in {"exception", "not_200", "short_text"} =>
    /\ tk.pc = "raised"
    /\ tk.outcome.raised = "No text extracted"
    /\ tk.regex_runs = 0
    /\ tk.posts = 0
    /\ Len(tk.gets) = 1
    /\ sc.pc = "pool" /\ sc.error = ""
    /\ sc.handled = {1} =>
         sc.failed_count = 1 /\ sc.no_text_count = 1 /\ sc.success_count = 0

\* a short document was fetched, its task failed and the orchestrator has
\* handled the failed future
C20_Witness ==
  /\ tk.fetch = "short_text"
  /\ tk.pc = "raised"
  /\ sc.handled = {1}
  /\ sc.completed = 1


\* C21: in the map of extract_lawyers_by_regex the firm-only marker is
\* recorded for a firm only when no name-bearing rule matched: no firm's
\* lawyer set holds both the marker and a person name
C21_MarkerOnlyWithoutNames ==
  \A firm \in DOMAIN tk.regex_results.val :
    firm_only_marker \in tk.regex_results.val[firm] =>
      tk.regex_results.val[firm] = {firm_only_marker}


contains_digit(name) == \E i \in 1..Len(name) : isdigit(name[i])

\* C22: firm validity rejects every candidate firm name that contains a
\* digit, whichever extractor produced it: no key of the pattern map, of the
\* LLM map or of the map returned for the filing contains a digit
C22_NoDigitInFirmKey ==
  \A firm \in DOMAIN tk.regex_results.val \cup DOMAIN tk.firm_lawyers_dict.val
               \cup DOMAIN tk.outcome.result.val :
    ~contains_digit(firm)


\* C23: search_paginated terminates for every sequence of page responses:
\* every iteration either leaves the loop or strictly increases the number of
\* collected results, which stays below max_total while the loop runs, so at
\* most max_total requests are made and the loop is eventually left
C23_PaginationTerminates ==
  /\ [](pg.pc = "loop" => pg.requests <= pg.all_results /\ pg.all_results < pg.max_total)
  /\ [](pg.requests <= pg.max_total)
  /\ [][pg.pc = "loop" => pg'.pc # "loop" \/ pg'.all_results > pg.all_results]_vars
  /\ <>(pg.pc # "loop")

\* the loop ran for several pages and was then stopped by the cap max_total
C23_Witness ==
  /\ pg.pc = "returned"
  /\ pg.requests >= 5
  /\ pg.all_results >= pg.max_total
  /\ pg.all_results < pg.total


\* C24: the number of results search_paginated returns never exceeds the cap
\* max_total, whatever the sizes (1 to 100 hits) of the pages it is given
C24_ResultsWithinCap ==
  pg.pc = "returned" => pg.all_results <= pg.max_total


\* C25: deduplicate_firm_lawyers preserves the set of firms: every firm key of
\* its input map, a firm with an empty lawyer set included, is a key of its
\* output map, and so has a row in the final table
C25_FirmsPreserved ==
  /\ dd.pc = "done" =>
       DOMAIN dd.firm_to_lawyers.val \subseteq DOMAIN dd.deduplicated.val
  /\ sc.pc = "done" =>
       \A firm \in DOMAIN dd.firm_to_lawyers.val :
         \E i \in 1..Len(sc.df) : sc.df[i].firm = firm


\* C26: under any interleaving of the worker tasks the diagnostics list
\* _debug_failures never holds more than _debug_limit entries, and once the
\* pool runs it holds only entries of the companies of the current search
C26_DebugFailuresBounded ==
  /\ Len(lf.debug_failures) <= debug_limit
  /\ lf.pc # "start" =>
       \A i \in 1..Len(lf.debug_failures) : lf.debug_failures[i] \in Rows


\* the firms of the filing's map that match firm_name and have a named lawyer
matched_firms_with_names ==
  {firm \in lf.matched :
     regex_of_filing[lf.filing].val[firm] \ {firm_only_marker} # {}}

\* C27: when the firm matched by get_most_recent_lawyer_from_filing has at
\* least one named lawyer in the extracted map, the value returned for the
\* company is one of those names, never the firm-only marker
C27_ReturnsNamedLawyer ==
  lf.pc = "returned" /\ lf.kind = "lawyer" /\ matched_firms_with_names = lf.matched =>
    /\ lf.returned # firm_only_marker
    /\ \E firm \in lf.matched :
         lf.returned \in regex_of_filing[lf.filing].val[firm] \ {firm_only_marker}


\* C28: the result of deduplicate_firm_lawyers is determined by the input map
\* alone: whatever the order in which the strings of a set are visited, the
\* output is that of the run that visits every set in sorted order, also when
\* two strings with the same normalization key have the same length
C28_VisitOrderIrrelevant ==
  dd.pc = "done" =>
    dd.deduplicated.val = dedup_sorted(dedup_call(dd.firm_to_lawyers)).val


\* C29: every hit record of search_edgar carries the cik and adsh fields that
\* search_law_firm_for_companies reads, so a search with at least one
\* relevant hit goes on to the per-company stage and never fails on a
\* missing field
C29_HitsCarryFilingIds ==
  /\ lf.pc # "search" /\ lf.pc # "raised" => {"cik", "adsh"} \subseteq lf.columns
  /\ lf.pc = "raised" => lf.error # "KeyError"


\* C30: in search_law_firm_for_companies, once every per-company future has
\* been handled, len(company_to_lawyer) + failed_extractions equals the
\* number of dispatched tasks, whatever the completion order and whichever
\* tasks return no lawyer or raise; while the loop runs the sum is the number
\* of futures handled so far
C30_RowCountsAddUp ==
  /\ lf.pc \in {"pool", "extracted"} =>
       /\ Cardinality(DOMAIN lf.company_to_lawyer) + lf.failed_extractions
            = Cardinality(lf.handled)
       /\ lf.completed = Cardinality(lf.handled)
  /\ lf.pc = "extracted" =>
       Cardinality(DOMAIN lf.company_to_lawyer) + lf.failed_extractions = Len(lf.futures)

\* a finished pool of at least three tasks, with a lawyer found for one
\* company, none for another (with a diagnostic recorded), and a task that
\* raised
C30_Witness ==
  /\ lf.pc = "extracted"
  /\ Len(lf.futures) >= 3
  /\ DOMAIN lf.company_to_lawyer # {}
  /\ \E t \in Rows : lf.futures[t].raised
  /\ \E t \in Rows : ~lf.futures[t].raised /\ lf.futures[t].lawyer = <<>>
  /\ Len(lf.error_samples) >= 1
  /\ Len(lf.debug_failures) >= 1

====
